---------------------------- MODULE Spec2Model ----------------------------
(***************************************************************************)
(* A model of autoPostWp: the feature-extraction cascade of the two site   *)
(* scrapers (scrapeWordPressSite, scrapeCustomSite) and the WooCommerce     *)
(* uploader (uploadProduct and its helpers).                                *)
(*                                                                          *)
(* Text is modelled as a sequence of characters.  A character is a string:  *)
(* a Latin letter, digit or punctuation mark is itself ("a", "1", ":"),     *)
(* a line break is "nl", the zero-width non-joiner is "zwnj", and a Persian *)
(* letter is written by its name ("vav", "ye", "zhe", ...), so that the     *)
(* Persian and the Latin alphabets stay disjoint as they are in the source. *)
(***************************************************************************)
EXTENDS Integers, Sequences, FiniteSets, TLC

(***************************************************************************)
(* Bounds of the model.                                                     *)
(***************************************************************************)
\* the most parts (container items, markup nodes, text pieces) a scraped page holds
MaxParts == 2
\* the most entries of productData.features handed to uploadProduct
MaxFeatures == 2

(***************************************************************************)
(* Program constants.                                                       *)
(***************************************************************************)
DescriptionLimit == 700
ShortDescriptionLimit == 200
SummaryCount == 5
MinFeatureLength == 3
MinShortFeatureLength == 5

(***************************************************************************)
(* Characters and strings.                                                  *)
(***************************************************************************)
NL == "nl"
ZWNJ == "zwnj"
\* JavaScript's \s and the characters String.prototype.trim removes
WhiteSpace == {" ", NL, "tab"}
Digits == {"0", "1", "2", "3", "4", "5", "6", "7", "8", "9"}
\* the bullet glyphs of the character class [•\-\*]
Bullets == {"bullet", "-", "*"}

Min(a, b) == IF a < b THEN a ELSE b

\* String.prototype.toLowerCase on one character, and the /i flag of the regexes
LowerChar(c) ==
  CASE c = "A" -> "a" [] c = "B" -> "b" [] c = "C" -> "c" [] c = "F" -> "f"
    [] c = "P" -> "p" [] c = "S" -> "s" [] c = "W" -> "w"
    [] OTHER -> c

toLowerCase(s) == [i \in 1..Len(s) |-> LowerChar(s[i])]

\* s.substring(i - 1, j - 1): the characters at positions i .. j-1 (1-based)
Sub(s, i, j) == IF j <= i THEN <<>> ELSE SubSeq(s, i, j - 1)

\* the word w stands in s at position i (case-insensitively when ci)
At(s, i, w, ci) ==
  /\ i >= 1
  /\ i + Len(w) - 1 <= Len(s)
  /\ \A k \in 1..Len(w) :
       IF ci THEN LowerChar(s[i + k - 1]) = LowerChar(w[k]) ELSE s[i + k - 1] = w[k]

AnyAt(s, i, words, ci) == \E w \in words : At(s, i, w, ci)

\* String.prototype.includes
includes(s, w) == \E i \in 1..(Len(s) + 1) : At(s, i, w, FALSE)

\* the position after the longest run of characters of class that starts at i
RECURSIVE SkipClass(_, _, _)
SkipClass(s, i, class) ==
  IF i <= Len(s) /\ s[i] \in class THEN SkipClass(s, i + 1, class) ELSE i

RECURSIVE TrimStart(_)
TrimStart(s) ==
  IF s # <<>> /\ Head(s) \in WhiteSpace THEN TrimStart(Tail(s)) ELSE s

RECURSIVE TrimEnd(_)
TrimEnd(s) ==
  IF s # <<>> /\ s[Len(s)] \in WhiteSpace THEN TrimEnd(SubSeq(s, 1, Len(s) - 1)) ELSE s

\* String.prototype.trim
trim(s) == TrimEnd(TrimStart(s))

RECURSIVE Concat(_)
Concat(ss) == IF ss = <<>> THEN <<>> ELSE Head(ss) \o Concat(Tail(ss))

\* Array.prototype.join
RECURSIVE join(_, _)
join(ss, sep) ==
  IF ss = <<>> THEN <<>>
  ELSE IF Len(ss) = 1 THEN ss[1]
  ELSE ss[1] \o sep \o join(Tail(ss), sep)

\* Array.prototype.filter
RECURSIVE SelectSeqIdx(_, _, _)
SelectSeqIdx(ss, Keep(_, _), i) ==
  IF i > Len(ss) THEN <<>>
  ELSE (IF Keep(ss[i], i) THEN <<ss[i]>> ELSE <<>>) \o SelectSeqIdx(ss, Keep, i + 1)

\* Array.prototype.indexOf, 1-based, 0 when absent
indexOf(ss, x) ==
  IF \E i \in 1..Len(ss) : ss[i] = x
    THEN CHOOSE i \in 1..Len(ss) : ss[i] = x /\ \A j \in 1..(i - 1) : ss[j] # x
    ELSE 0

Repeat(c, n) == [i \in 1..n |-> c]

(***************************************************************************)
(* The Persian vocabulary of the source.                                    *)
(***************************************************************************)
W_vizhegi == <<"vav", "ye", "zhe", "gaf", "ye">>
W_haye == <<"he", "alef", "ye">>
W_mahsul == <<"mim", "hah", "sad", "vav", "lam">>
W_brand == <<"be", "re", "nun", "dal">>
W_motor == <<"mim", "vav", "te", "vav", "re">>
W_sharzh == <<"shin", "alef", "re", "zhe">>
W_vazn == <<"vav", "ze", "nun">>

(***************************************************************************)
(* The regular expressions of the feature cascade.                          *)
(***************************************************************************)
\* the stop-phrases of the filter of scrapeCustomSite's strategy 2: brand,
\* category, price, in stock, quantity, add
StopPhrasesCustom2 ==
  { W_brand, <<"dal", "sin", "te", "he">>, <<"qaf", "ye", "mim", "te">>,
    <<"mim", "vav", "jim", "vav", "dal">>, <<"te", "ain", "dal", "alef", "dal">>,
    <<"alef", "fe", "ze", "vav", "dal", "nun">> }
\* the stop-phrases of the terminators and of the other filters: those, and
\* support
StopPhrases == StopPhrasesCustom2 \cup { <<"pe", "shin", "te", "ye", "be", "alef", "nun", "ye">> }
\* the terminators of the English pattern of scrapeWordPressSite
EnglishTerminators ==
  { <<"b", "r", "a", "n", "d">>, <<"c", "a", "t", "e", "g", "o", "r", "y">>,
    <<"p", "r", "i", "c", "e">>, <<"s", "t", "o", "c", "k">>, <<"a", "d", "d">>,
    <<"s", "u", "p", "p", "o", "r", "t">> }
\* the keywords of the split of strategy 2 and of the paragraphs of strategy 6:
\* motor, charge, weight, speed, blade, battery, dimensions, material, having,
\* equipped, suitable
Keywords2 ==
  { W_motor, W_sharzh, W_vazn,
    <<"sin", "re", "ain", "te">>,
    <<"te", "ye", "ghain", "he">>,
    <<"be", "alef", "te", "re", "ye">>,
    <<"alef", "be", "ain", "alef", "dal">>,
    <<"jim", "nun", "sin">>,
    <<"dal", "alef", "re", "alef", "ye">>,
    <<"mim", "jim", "he", "ze">>,
    <<"mim", "nun", "alef", "sin", "be">> }
\* the keywords of the direct split of strategy 5: those, and length, capacity,
\* time, power
Keywords5 ==
  Keywords2 \cup
  { <<"ta", "vav", "lam">>,
    <<"za", "re", "fe", "ye", "te">>,
    <<"ze", "mim", "alef", "nun">>,
    <<"te", "vav", "alef", "nun">> }
\* the keywords of the split after the label in strategy 5: those, and has, is,
\* the prefix mi, be
Keywords5Label ==
  Keywords5 \cup
  { <<"dal", "alef", "re", "dal">>,
    <<"alef", "sin", "te">>,
    <<"mim", "ye">>,
    <<"be", "alef", "shin", "dal">> }

\* /ویژگی[‌\s]*های[‌\s]*محصول[:\s]*/ matched at i: the position after it, or 0
PersianAnchorAt(s, i) ==
  IF ~At(s, i, W_vizhegi, TRUE) THEN 0
  ELSE LET j1 == SkipClass(s, i + Len(W_vizhegi), WhiteSpace \cup {ZWNJ})
       IN IF ~At(s, j1, W_haye, TRUE) THEN 0
          ELSE LET j2 == SkipClass(s, j1 + Len(W_haye), WhiteSpace \cup {ZWNJ})
               IN IF ~At(s, j2, W_mahsul, TRUE) THEN 0
                  ELSE SkipClass(s, j2 + Len(W_mahsul), WhiteSpace \cup {":"})

\* /features?[:\s]*/i matched at i: the position after it, or 0
EnglishAnchorAt(s, i) ==
  IF ~At(s, i, <<"f", "e", "a", "t", "u", "r", "e">>, TRUE) THEN 0
  ELSE LET j1 == IF At(s, i + 7, <<"s">>, TRUE) THEN i + 8 ELSE i + 7
       IN SkipClass(s, j1, WhiteSpace \cup {":"})

\* the first position where the anchor matches: <<where the capture starts>>, or <<>>
FirstAnchor(s, AnchorAt(_, _)) ==
  LET hits == { i \in 1..Len(s) : AnchorAt(s, i) # 0 }
  IN IF hits = {} THEN <<>>
     ELSE << AnchorAt(s, CHOOSE i \in hits : \A j \in hits : i <= j) >>

\* /\n\s*\n\s*\n/ matched at k
TripleBreakAt(s, k) ==
  /\ k <= Len(s)
  /\ s[k] = NL
  /\ Cardinality({ j \in (k + 1)..(SkipClass(s, k + 1, WhiteSpace) - 1) : s[j] = NL }) >= 2

\* /\n\n|\n[^\d]/ matched at k
BreakBeforeNonDigitAt(s, k) ==
  /\ k + 1 <= Len(s)
  /\ s[k] = NL
  /\ (s[k + 1] = NL \/ s[k + 1] \notin Digits)

\* ([\s\S]*?)(?:terminator|$) from position start: the lazy capture
LazyCapture(s, start, TerminatorAt(_, _)) ==
  LET stops == { k \in start..Len(s) : TerminatorAt(s, k) }
      end == IF stops = {} THEN Len(s) + 1 ELSE CHOOSE k \in stops : \A j \in stops : k <= j
  IN Sub(s, start, end)

WordPressPersianTerminatorAt(s, k) == TripleBreakAt(s, k) \/ AnyAt(s, k, StopPhrases, TRUE)
WordPressEnglishTerminatorAt(s, k) == TripleBreakAt(s, k) \/ AnyAt(s, k, EnglishTerminators, TRUE)

\* text.match(persian) || text.match(english) of strategy 2: <<capture>>, or <<>>
\* for null
featuresMatchWordPress(text) ==
  LET persian == FirstAnchor(text, PersianAnchorAt)
      english == FirstAnchor(text, EnglishAnchorAt)
  IN IF persian # <<>> THEN << LazyCapture(text, persian[1], WordPressPersianTerminatorAt) >>
     ELSE IF english # <<>> THEN << LazyCapture(text, english[1], WordPressEnglishTerminatorAt) >>
     ELSE <<>>

featuresMatchCustom(text) ==
  LET persian == FirstAnchor(text, PersianAnchorAt)
      english == FirstAnchor(text, EnglishAnchorAt)
  IN IF persian # <<>> THEN << LazyCapture(text, persian[1], BreakBeforeNonDigitAt) >>
     ELSE IF english # <<>> THEN << LazyCapture(text, english[1], BreakBeforeNonDigitAt) >>
     ELSE <<>>

\* shortDescText.match(/ویژگی[‌\s]*های[‌\s]*محصول[:\s]*([\s\S]*)/i): the greedy capture
featuresSectionMatch(text) ==
  LET persian == FirstAnchor(text, PersianAnchorAt)
  IN IF persian # <<>> THEN << Sub(text, persian[1], Len(text) + 1) >> ELSE <<>>

\* (?=\d+\.) at q
NumberMarkerAt(s, q) ==
  /\ q <= Len(s)
  /\ s[q] \in Digits
  /\ LET j == SkipClass(s, q, Digits) IN j <= Len(s) /\ s[j] = "."

\* (?=[•\-\*]) at q
BulletAt(s, q) == q <= Len(s) /\ s[q] \in Bullets

\* String.prototype.split with /\n|(?=\d+\.)|(?=[•\-\*])|(?=keywords)/ (the \n
\* alternative only when lineBreaks).  A line break is cut out wherever it is; a
\* look-ahead cuts before its position unless a piece starts there, which it does
\* at the start of the text and right after a line break
split(s, lineBreaks, keywords) ==
  LET breaks == { q \in 1..Len(s) : lineBreaks /\ s[q] = NL }
      marks == { q \in 2..Len(s) :
                   /\ q \notin breaks
                   /\ (q - 1) \notin breaks
                   /\ (NumberMarkerAt(s, q) \/ BulletAt(s, q) \/ AnyAt(s, q, keywords, FALSE)) }
      starts == {1} \cup { q + 1 : q \in breaks } \cup marks
      cuts(p) == { c \in breaks : c >= p } \cup { c \in marks : c > p } \cup {Len(s) + 1}
      endOf(p) == CHOOSE c \in cuts(p) : \A d \in cuts(p) : c <= d
      nth(i) == CHOOSE p \in starts : Cardinality({ x \in starts : x < p }) = i - 1
  IN [i \in 1..Cardinality(starts) |-> Sub(s, nth(i), endOf(nth(i)))]

\* f.replace(/^\d+\.?\s*/, '')
stripNumber(f) ==
  IF f # <<>> /\ f[1] \in Digits
    THEN LET j == SkipClass(f, 1, Digits)
             k == IF j <= Len(f) /\ f[j] = "." THEN j + 1 ELSE j
         IN Sub(f, SkipClass(f, k, WhiteSpace), Len(f) + 1)
    ELSE f

\* f.replace(/^[•\-\*]\s*/, '')
stripBullet(f) ==
  IF f # <<>> /\ f[1] \in Bullets
    THEN Sub(f, SkipClass(f, 2, WhiteSpace), Len(f) + 1)
    ELSE f

\* f.replace(/^\d+\.?\s*/, '').replace(/^[•\-\*]\s*/, '').trim()
cleanSegment(f) == trim(stripBullet(stripNumber(f)))

RECURSIVE mapClean(_)
mapClean(fs) == IF fs = <<>> THEN <<>> ELSE << cleanSegment(Head(fs)) >> \o mapClean(Tail(fs))

\* f.match(/^(stop|...|$)/i): f starts with one of the words, or (with orEmpty) is empty
startsWithAny(f, words, orEmpty) == AnyAt(f, 1, words, TRUE) \/ (orEmpty /\ f = <<>>)

\* text.split(...).map(...).filter(...): the segments of a text that count as features
segments(text, lineBreaks, keywords, minLength, stops, orEmpty) ==
  SelectSeq(mapClean(split(text, lineBreaks, keywords)),
            LAMBDA f : Len(f) > minLength /\ ~startsWithAny(f, stops, orEmpty))

(***************************************************************************)
(* JavaScript objects: a function from the keys that are present.  A key    *)
(* that is absent reads as undefined.                                       *)
(***************************************************************************)
EmptyObject == <<>>
Has(o, k) == k \in DOMAIN o
Put(o, k, v) == [x \in (DOMAIN o) \cup {k} |-> IF x = k THEN v ELSE o[x]]
\* the delete operator
Delete(o, k) == [x \in (DOMAIN o) \ {k} |-> o[x]]
Merge(o, q) == [x \in (DOMAIN o) \cup (DOMAIN q) |-> IF x \in DOMAIN q THEN q[x] ELSE o[x]]
\* a property that is present and is not the empty string or the empty array
Truthy(o, k) == Has(o, k) /\ o[k] # <<>>

(***************************************************************************)
(* Variables.                                                               *)
(***************************************************************************)
VARIABLES
  \* ---- uploadProduct (src/uploader.js) ----
  envOk,               \* the three WOOCOMMERCE_* environment variables are set
  productData,         \* the argument of uploadProduct
  upc,                 \* where uploadProduct stands
  categoryIds,         \* let categoryIds
  wooCommerceProduct,  \* const wooCommerceProduct, the payload object
  requests,            \* every request handed to wcApi, in order, with a copy of its body
  firstError,          \* the error caught as firstError
  retryError,          \* the error caught as retryError
  response,            \* let response
  outcome,             \* how the promise of uploadProduct settled
  existingProducts,    \* const existingProducts: <<the answer of the SKU lookup>>
  searchResponse,      \* const searchResponse: <<the answer of the category search>>
  metaError,           \* the error caught in updateProductMeta
  \* ---- the feature cascade of the scrapers ----
  site,                \* which scraper runs: "wordpress" or "custom"
  page,                \* the page the scraper reads
  spc,                 \* where the cascade stands
  featuresList,        \* let featuresList
  features,            \* data.features
  strategy,            \* the strategies that have stored entries in data.features
  \* ---- main (src/main.js) ----
  argv,                \* process.argv[2]: "none", "invalid" or "valid"
  mpc,                 \* where main stands
  exitCode,            \* <<the exit code>> once the process has ended
  \* ---- processAndUploadImages (image-uploader) ----
  imageUrls,           \* the argument imageUrls
  ipc,                 \* where processAndUploadImages stands
  idx,                 \* the position of the loop in imageUrls, from 1
  results,             \* const results
  started,             \* the images whose processing was started, in order
  finished,            \* the images that were uploaded or have failed, in order
  \* ---- scrapeProduct (scraper.js) ----
  dargs,               \* the url and process.env.PUPPETEER_EXECUTABLE_PATH
  dpc,                 \* where scrapeProduct stands
  browser,             \* let browser: FALSE for null
  closeCalls,          \* how often browser.close() was called
  isWordPress,         \* const isWordPress, "unknown" before it is assigned
  settlement           \* how the promise of scrapeProduct settles

uploaderVars == <<envOk, productData, upc, categoryIds, wooCommerceProduct, requests,
                  firstError, retryError, response, outcome, existingProducts, searchResponse, metaError>>
scraperVars == <<site, page, spc, featuresList, features, strategy>>
mainVars == <<argv, mpc, exitCode>>
imageVars == <<imageUrls, ipc, idx, results, started, finished>>
dispatchVars == <<dargs, dpc, browser, closeCalls, isWordPress, settlement>>
vars == <<envOk, productData, upc, categoryIds, wooCommerceProduct, requests,
          firstError, retryError, response, outcome, existingProducts, searchResponse, metaError,
          site, page, spc, featuresList, features, strategy,
          argv, mpc, exitCode,
          imageUrls, ipc, idx, results, started, finished,
          dargs, dpc, browser, closeCalls, isWordPress, settlement>>

(***************************************************************************)
(* uploadProduct: errors and responses.                                     *)
(***************************************************************************)
\* error.response.data of an API error: absent, or an object with a code and
\* possibly a message
NoData == [present |-> FALSE, code |-> "", hasMessage |-> FALSE, message |-> <<>>]
Data(code, message) ==
  [present |-> TRUE, code |-> code, hasMessage |-> TRUE, message |-> message]
DataNoMessage(code) ==
  [present |-> TRUE, code |-> code, hasMessage |-> FALSE, message |-> <<>>]

NoError == [kind |-> "none", req |-> 0, status |-> 0, data |-> NoData,
            text |-> "", detail |-> <<>>]
\* an error thrown by wcApi with error.response set; req is the request it answers
HttpError(req, status, data) ==
  [kind |-> "http", req |-> req, status |-> status, data |-> data,
   text |-> "", detail |-> <<>>]
\* an error thrown by wcApi without error.response (no answer arrived)
NetworkError(req) ==
  [kind |-> "network", req |-> req, status |-> 0, data |-> NoData,
   text |-> "", detail |-> <<>>]
\* new Error(text + detail), and the TypeError of reading .length of undefined
NewError(text, detail) ==
  [kind |-> "Error", req |-> 0, status |-> 0, data |-> NoData,
   text |-> text, detail |-> detail]
TypeError == NewError("TypeError: Cannot read properties of undefined", <<>>)

\* JSON.stringify(data), as far as the messages need it
JSONstringify(d) == IF d.present THEN <<"{", d.code, "}">> ELSE <<"null">>

SKU == <<"S", "K", "U">>
MsgSku == <<"b", "a", "d", " ", "S", "K", "U">>
MsgLowerSku == <<"s", "k", "u", " ", "d", "u", "p">>
MsgOther == <<"n", "o", " ", "n", "a", "m", "e">>

\* what the API can answer to a product-create POST that fails
CreateErrors(req) ==
  { HttpError(req, 400, DataNoMessage("product_invalid_sku")),
    HttpError(req, 400, Data("woocommerce_rest_error", MsgSku)),
    HttpError(req, 400, Data("woocommerce_rest_error", MsgLowerSku)),
    HttpError(req, 400, Data("product_invalid_sku", MsgOther)),
    HttpError(req, 400, NoData),
    HttpError(req, 401, Data("woocommerce_rest_cannot_create", MsgOther)),
    HttpError(req, 403, NoData),
    HttpError(req, 404, NoData),
    HttpError(req, 500, Data("internal", MsgSku)),
    NetworkError(req) }

\* a resolved response: response.data may be missing, and so may response.data.id
NoResponse == [received |-> FALSE, hasData |-> FALSE, id |-> 0]
CreateResponses ==
  { [received |-> TRUE, hasData |-> TRUE, id |-> 42],
    [received |-> TRUE, hasData |-> TRUE, id |-> 0],
    [received |-> TRUE, hasData |-> FALSE, id |-> 0] }

\* a slip in the test of lines 275-277: the message is not looked at
IsSkuConflictCodeOnly(e) ==
  /\ e.kind = "http"
  /\ e.status = 400
  /\ e.data.present
  /\ e.data.code = "product_invalid_sku"

\* a slip in the test of lines 275-277: the status is not looked at
IsSkuConflictAnyStatus(e) ==
  /\ e.kind = "http"
  /\ e.data.present
  /\ \/ e.data.code = "product_invalid_sku"
     \/ (e.data.hasMessage /\ includes(e.data.message, SKU))

\* the test of lines 275-277: a 400 whose payload signals the SKU
IsSkuConflict(e) ==
  /\ e.kind = "http"
  /\ e.status = 400
  /\ e.data.present
  /\ \/ e.data.code = "product_invalid_sku"
     \/ (e.data.hasMessage /\ includes(e.data.message, SKU))

\* a slip at lines 311-332: the error is thrown on as it was caught
rethrow(error) == error

\* the catch block of uploadProduct: what it throws for the error it caught
outerCatch(error) ==
  IF error.kind = "http"
    THEN IF error.status = 401 \/ error.status = 403
           THEN NewError("WooCommerce authentication failed. Please check your API credentials.", <<>>)
         ELSE IF error.status = 400
           THEN NewError("Invalid product data: ",
                         IF error.data.present /\ error.data.hasMessage /\ error.data.message # <<>>
                           THEN error.data.message
                           ELSE JSONstringify(error.data))
         ELSE IF error.status = 404
           THEN NewError("WooCommerce API endpoint not found. Check your site URL.", <<>>)
         ELSE NewError("WooCommerce API error (status): ",
                       <<ToString(error.status)>> \o JSONstringify(error.data))
    ELSE error

(***************************************************************************)
(* uploadProduct: building the payload.                                     *)
(***************************************************************************)
UntitledProduct == <<"U", "n", "t", "i", "t", "l", "e", "d">>
Zero == <<"0">>

\* a slip at line 99: the name is taken as it is
productNameAsGiven(pd) == IF Has(pd, "name") THEN pd.name ELSE <<>>

\* line 99: productData.name || 'Untitled Product'
productNameOf(pd) == IF Truthy(pd, "name") THEN pd.name ELSE UntitledProduct

\* lines 100-146: the object literal, the price, the description and the short
\* description (the caller has checked that both descriptions are present)
BaseProduct(pd) ==
  LET productName == productNameOf(pd)
      productPrice == IF Truthy(pd, "regular_price") THEN pd.regular_price ELSE Zero
      p0 == [name |-> productName, type |-> "simple", status |-> "draft"]
      p1 == IF productPrice # <<>> /\ productPrice # Zero
              THEN Put(p0, "regular_price", productPrice) ELSE p0
      p2 == IF Len(pd.description) # 0 /\ ~(Len(pd.description) > DescriptionLimit)
              THEN Put(p1, "description", pd.description) ELSE p1
      p3 == IF Len(pd.short_description) > ShortDescriptionLimit
              THEN p2 ELSE Put(p2, "short_description", pd.short_description)
  IN p3

\* lines 171-184: images, categories, sale price
AddOptional(p, pd, cats) ==
  LET p1 == IF Has(pd, "images") /\ Len(pd.images) > 0 THEN Put(p, "images", pd.images) ELSE p
      p2 == IF Len(cats) > 0 THEN Put(p1, "categories", cats) ELSE p1
      p3 == IF Truthy(pd, "sale_price") THEN Put(p2, "sale_price", pd.sale_price) ELSE p2
  IN p3

FeaturesLabel == W_vizhegi \o <<" ">> \o W_haye \o <<" ">> \o W_mahsul
PersianComma == <<"pcomma", " ">>

\* f.replace(/</g, '&lt;').replace(/>/g, '&gt;')
RECURSIVE escapeHtml(_)
escapeHtml(f) ==
  IF f = <<>> THEN <<>>
  ELSE (IF Head(f) = "<" THEN <<"&", "l", "t", ";">>
        ELSE IF Head(f) = ">" THEN <<"&", "g", "t", ";">>
        ELSE <<Head(f)>>) \o escapeHtml(Tail(f))

RECURSIVE listItems(_)
listItems(fs) ==
  IF fs = <<>> THEN <<>>
  ELSE <<"<", "l", "i", ">">> \o escapeHtml(Head(fs)) \o <<"<", "/", "l", "i", ">">>
       \o listItems(Tail(fs))

\* lines 189-192: trim, drop the empty, drop the duplicates
RECURSIVE mapTrim(_)
mapTrim(fs) == IF fs = <<>> THEN <<>> ELSE <<trim(Head(fs))>> \o mapTrim(Tail(fs))

\* a slip at line 189: only as many features as the summary takes are kept
allFeaturesCapped(fs) == SubSeq(mapTrim(fs), 1, Min(SummaryCount, Len(fs)))

allFeaturesOf(fs) ==
  LET trimmed == mapTrim(fs)
      nonEmpty == SelectSeq(trimmed, LAMBDA f : f # <<>> /\ Len(f) > 0)
      keepFirst(f, i) == indexOf(nonEmpty, f) = i
  IN SelectSeqIdx(nonEmpty, keepFirst, 1)

\* lines 229-231
featuresHTMLOf(allFeatures) ==
  <<"<", "h", "3", ">">> \o FeaturesLabel \o <<":">> \o <<"<", "/", "h", "3", ">">>
  \o <<"<", "u", "l", ">">> \o listItems(allFeatures) \o <<"<", "/", "u", "l", ">">>

BrBr == <<"<", "b", "r", ">", "<", "b", "r", ">">>

\* a slip at line 187: the length of the list is not looked at
hasFeaturesKey(pd) == Has(pd, "features")

\* line 187: productData.features && productData.features.length > 0
hasFeatures(pd) == Has(pd, "features") /\ Len(pd.features) > 0

\* a slip at line 202: the feature is repeated as its own description
formatFeatureTwice(feature) == [ftitle |-> feature, fdesc |-> feature]

\* lines 200-203: one entry of formattedFeatures
formatFeature(feature) == [ftitle |-> feature, fdesc |-> <<>>]

\* a slip at line 242: the summary is not cut
shortFeaturesUncut(allFeatures) == join(allFeatures, PersianComma)

\* line 242: allFeatures.slice(0, 5).join('، ')
shortFeaturesOf(allFeatures) ==
  join(SubSeq(allFeatures, 1, Min(SummaryCount, Len(allFeatures))), PersianComma)

\* lines 186-253: the features become meta data, one attribute, and a part of
\* both descriptions
\* a slip at line 235: the features are put behind the description
withFeaturesLast(featuresHTML, description) == description \o BrBr \o featuresHTML

\* line 235
withFeaturesFirst(featuresHTML, description) == featuresHTML \o BrBr \o description

MapFeatures(p, pd) ==
  IF hasFeatures(pd)
    THEN
      LET allFeatures == allFeaturesOf(pd.features)
          formattedFeatures == [i \in 1..Len(allFeatures) |-> formatFeature(allFeatures[i])]
          meta == << [key |-> "dina_product_features", value |-> formattedFeatures] >>
          attrs == << [id |-> 0, name |-> FeaturesLabel, options |-> allFeatures,
                       visible |-> TRUE, variation |-> FALSE] >>
          featuresHTML == featuresHTMLOf(allFeatures)
          p1 == Put(Put(p, "meta_data", meta), "attributes", attrs)
          p2 == IF Truthy(p1, "description")
                  THEN Put(p1, "description", withFeaturesFirst(featuresHTML, p1.description))
                  ELSE Put(p1, "description", featuresHTML)
          shortFeatures == shortFeaturesOf(allFeatures)
          p3 == IF ~Truthy(p2, "short_description")
                     \/ ~includes(p2.short_description, W_vizhegi)
                  THEN IF Truthy(p2, "short_description")
                         THEN Put(p2, "short_description",
                                  shortFeatures \o <<" ", "-", " ">> \o p2.short_description)
                         ELSE Put(p2, "short_description", shortFeatures)
                  ELSE p2
      IN p3
    ELSE p

(***************************************************************************)
(* uploadProduct: the requests and what the API may answer.                 *)
(***************************************************************************)
Request(method, path, body) == [method |-> method, path |-> path, body |-> body]
CategorySearch(name) ==
  Request("GET", "products/categories", [search |-> name, per_page |-> 100])
SkuLookup(sku) == Request("GET", "products", [sku |-> sku, per_page |-> 1])
CreatePost(payload) == Request("POST", "products", payload)
ProductGet(id) == Request("GET", "products/:id", [id |-> id])
ProductPut(id, meta) == Request("PUT", "products/:id", [id |-> id, meta_data |-> meta])

CatName == <<"C", "a", "t">>
DogName == <<"d", "o", "g">>
\* the categories of the shop
ShopCategories ==
  { [id |-> 7, name |-> <<"c", "a", "t">>], [id |-> 8, name |-> <<"c", "a", "t", "s">>] }

\* a list answer: rejected, resolved without data, or resolved with a list
Rejected == [ok |-> FALSE, hasData |-> FALSE, data |-> <<>>]
Resolved(list) == [ok |-> TRUE, hasData |-> TRUE, data |-> list]
ResolvedNoData == [ok |-> TRUE, hasData |-> FALSE, data |-> <<>>]

CategoryAnswers ==
  { Rejected, ResolvedNoData, Resolved(<<>>) }
    \cup { Resolved(<<c>>) : c \in ShopCategories }
    \cup { Resolved(<<cd[1], cd[2]>>) :
             cd \in { x \in ShopCategories \X ShopCategories : x[1] # x[2] } }

SkuAnswers ==
  { Rejected, ResolvedNoData, Resolved(<<>>), Resolved(<< [id |-> 5] >>) }

OtherMeta == [key |-> "_edit_lock", value |-> <<>>]
OldFeaturesMeta == [key |-> "dina_product_features", value |-> <<>>]
\* the answer to GET products/:id: data.meta_data may be missing
ProductAnswers ==
  { Rejected, ResolvedNoData, Resolved(<<>>), Resolved(<<OtherMeta>>),
    Resolved(<<OtherMeta, OldFeaturesMeta>>) }

\* a slip at lines 44-51: the first category the search returned is taken
firstResultId(answer, categoryName) ==
  IF answer.ok /\ answer.hasData /\ Len(answer.data) > 0 THEN answer.data[1].id ELSE 0

\* lines 34-61: the id of the category of that name, or 0 for null
getExistingCategory(answer, categoryName) ==
  IF ~answer.ok THEN 0
  ELSE IF answer.hasData /\ Len(answer.data) > 0
            /\ \E i \in 1..Len(answer.data) :
                 toLowerCase(answer.data[i].name) = toLowerCase(categoryName)
    THEN LET i == CHOOSE i \in 1..Len(answer.data) :
                    /\ toLowerCase(answer.data[i].name) = toLowerCase(categoryName)
                    /\ \A j \in 1..(i - 1) :
                         toLowerCase(answer.data[j].name) # toLowerCase(categoryName)
         IN answer.data[i].id
    ELSE 0

\* a slip at line 77: the last scraped category is taken
lastCategoryOf(categories) == categories[Len(categories)]

\* line 77: const firstCategory = categories[0]
firstCategoryOf(categories) == categories[1]

\* lines 75-86: the ids processCategories returns once the lookup has answered
processCategories(answer, categories) ==
  LET categoryId == getExistingCategory(answer, firstCategoryOf(categories).name)
  IN IF categoryId # 0 THEN << [id |-> categoryId] >> ELSE <<>>

\* lines 347-356: the meta data merged into the product's current meta data
RECURSIVE mergeMeta(_, _)
mergeMeta(currentMeta, metaData) ==
  IF metaData = <<>> THEN currentMeta
  ELSE LET newMeta == Head(metaData)
           hit == { i \in 1..Len(currentMeta) : currentMeta[i].key = newMeta.key }
           existingIndex == IF hit = {} THEN 0
                            ELSE CHOOSE i \in hit : \A j \in hit : i <= j
           updated == IF existingIndex >= 1
                        THEN [currentMeta EXCEPT ![existingIndex] = newMeta]
                        ELSE Append(currentMeta, newMeta)
       IN mergeMeta(updated, Tail(metaData))

\* how the promise of uploadProduct stands
Pending == [kind |-> "pending", id |-> 0, error |-> NoError]
ResolvedWith(id) == [kind |-> "resolved", id |-> id, error |-> NoError]
RejectedWith(e) == [kind |-> "rejected", id |-> 0, error |-> e]

\* a slip at line 280: the payload is rebuilt without the SKU and loses a field
RemoveSkuAndSalePrice(p) == Delete(Delete(p, "sku"), "sale_price")

\* line 280: delete wooCommerceProduct.sku
RemoveSku(p) == Delete(p, "sku")

\* a slip at line 286: the error of the resubmission is thrown
ThrowRetryError(first, retry) == retry

\* line 286: the error thrown when the resubmission fails too
ThrowAfterRetry(first, retry) == first

\* a slip at lines 364-367: a failed meta update is rethrown
MetaFailureRejects(id) == RejectedWith(NewError("meta update failed", <<>>))

\* lines 364-367 and 306: a failed meta update is logged, and the id is returned
MetaFailure(id) == ResolvedWith(id)

(***************************************************************************)
(* uploadProduct: the steps.  Each action is the code that runs from one    *)
(* await to the next.                                                       *)
(***************************************************************************)
UploaderFrame ==
  /\ UNCHANGED <<envOk, productData>> /\ UNCHANGED scraperVars /\ UNCHANGED mainVars
  /\ UNCHANGED imageVars /\ UNCHANGED dispatchVars

\* lines 171-272: the rest of the payload, then the first POST
SubmitProduct(p, cats, reqs) ==
  LET payload == MapFeatures(AddOptional(p, productData, cats), productData)
  IN /\ upc' = "awaitCreate"
     /\ categoryIds' = cats
     /\ wooCommerceProduct' = payload
     /\ requests' = Append(reqs, CreatePost(payload))
     /\ UNCHANGED <<firstError, retryError, response, outcome>>

\* lines 112-169: the payload up to the SKU; reading .length of a description
\* that is undefined throws, and the catch block rethrows that TypeError
BuildProduct(cats, reqs) ==
  IF ~Has(productData, "description") \/ ~Has(productData, "short_description")
    THEN /\ upc' = "rejected"
         /\ outcome' = RejectedWith(outerCatch(TypeError))
         /\ categoryIds' = cats
         /\ requests' = reqs
         /\ UNCHANGED <<wooCommerceProduct, firstError, retryError, response>>
    ELSE IF Truthy(productData, "sku")
      THEN /\ upc' = "awaitSku"
           /\ categoryIds' = cats
           /\ wooCommerceProduct' = BaseProduct(productData)
           /\ requests' = Append(reqs, SkuLookup(productData.sku))
           /\ UNCHANGED <<firstError, retryError, response, outcome>>
      ELSE SubmitProduct(BaseProduct(productData), cats, reqs)

\* lines 94-110: the API client, then the category lookup if categories were scraped
UploadStart ==
  /\ UNCHANGED <<existingProducts, searchResponse, metaError>>
  /\ upc = "start"
  /\ UploaderFrame
  /\ IF ~envOk
       THEN /\ upc' = "rejected"
            /\ outcome' = RejectedWith(NewError("Missing WooCommerce configuration. Please check your .env file.", <<>>))
            /\ UNCHANGED <<categoryIds, wooCommerceProduct, requests, firstError,
                           retryError, response>>
       ELSE IF Has(productData, "categories") /\ Len(productData.categories) > 0
         THEN /\ upc' = "awaitCategory"
              /\ requests' = Append(requests,
                                   CategorySearch(firstCategoryOf(productData.categories).name))
              /\ UNCHANGED <<categoryIds, wooCommerceProduct, firstError, retryError,
                             response, outcome>>
         ELSE BuildProduct(<<>>, requests)

\* lines 37-60 and 80-86: the category lookup answers
CategoryAnswer ==
  /\ UNCHANGED <<existingProducts, metaError>>
  /\ upc = "awaitCategory"
  /\ UploaderFrame
  /\ \E answer \in CategoryAnswers :
       /\ searchResponse' = <<answer>>
       /\ BuildProduct(processCategories(answer, productData.categories), requests)

\* a slip at line 157: the answer of the lookup is not looked at
skuNeverExists(answer) == FALSE

\* line 157: the lookup returned at least one product; a lookup that failed
\* (catch, lines 163-167) returned none
skuExists(answer) == answer.ok /\ answer.hasData /\ Len(answer.data) > 0

\* lines 152-168: the SKU lookup answers
SkuAnswer ==
  /\ upc = "awaitSku"
  /\ UploaderFrame
  /\ \E answer \in SkuAnswers :
       /\ existingProducts' = <<answer>>
       /\ UNCHANGED <<searchResponse, metaError>>
       /\ LET p == IF skuExists(answer) THEN wooCommerceProduct
                ELSE Put(wooCommerceProduct, "sku", productData.sku)
          IN SubmitProduct(p, categoryIds, requests)

\* a slip at line 302: the meta update is started whatever the payload holds
HandleResponseAlwaysMeta(resp) ==
  /\ response' = resp
  /\ IF resp.hasData /\ resp.id # 0
       THEN /\ upc' = "awaitMetaGet"
            /\ requests' = Append(requests, ProductGet(resp.id))
            /\ UNCHANGED outcome
       ELSE /\ upc' = "rejected"
            /\ outcome' = RejectedWith(NewError("Invalid response from WooCommerce API", <<>>))
            /\ UNCHANGED requests

\* lines 296-309: a create response arrived
HandleResponse(resp) ==
  /\ response' = resp
  /\ IF resp.hasData /\ resp.id # 0
       THEN IF Has(wooCommerceProduct, "meta_data") /\ Len(wooCommerceProduct.meta_data) > 0
              THEN /\ upc' = "awaitMetaGet"
                   /\ requests' = Append(requests, ProductGet(resp.id))
                   /\ UNCHANGED outcome
              ELSE /\ upc' = "resolved"
                   /\ outcome' = ResolvedWith(resp.id)
                   /\ UNCHANGED requests
       ELSE /\ upc' = "rejected"
            /\ outcome' = RejectedWith(outerCatch(NewError("Invalid response from WooCommerce API", <<>>)))
            /\ UNCHANGED requests

\* lines 270-294: the first POST answers
CreateAnswer ==
  /\ UNCHANGED <<existingProducts, searchResponse, metaError>>
  /\ upc = "awaitCreate"
  /\ UploaderFrame
  /\ UNCHANGED categoryIds
  /\ \/ \E resp \in CreateResponses :
          /\ UNCHANGED <<wooCommerceProduct, firstError, retryError>>
          /\ HandleResponse(resp)
     \/ \E e \in CreateErrors(Len(requests)) :
          /\ firstError' = e
          /\ UNCHANGED <<retryError, response>>
          /\ IF IsSkuConflict(e)
               THEN /\ wooCommerceProduct' = RemoveSku(wooCommerceProduct)
                    /\ requests' = Append(requests, CreatePost(wooCommerceProduct'))
                    /\ upc' = "awaitRetry"
                    /\ UNCHANGED outcome
               ELSE /\ upc' = "rejected"
                    /\ outcome' = RejectedWith(outerCatch(e))
                    /\ UNCHANGED <<wooCommerceProduct, requests>>

\* lines 281-287: the POST without the SKU answers
RetryAnswer ==
  /\ UNCHANGED <<existingProducts, searchResponse, metaError>>
  /\ upc = "awaitRetry"
  /\ UploaderFrame
  /\ UNCHANGED <<categoryIds, wooCommerceProduct, firstError>>
  /\ \/ \E resp \in CreateResponses :
          /\ UNCHANGED retryError
          /\ HandleResponse(resp)
     \/ \E e \in CreateErrors(Len(requests)) :
          /\ retryError' = e
          /\ upc' = "rejected"
          /\ outcome' = RejectedWith(outerCatch(ThrowAfterRetry(firstError, e)))
          /\ UNCHANGED <<requests, response>>

\* lines 338-361: updateProductMeta got the product, or failed to (a rejected
\* GET, or an answer without data, whose .meta_data cannot be read)
MetaGetAnswer ==
  /\ UNCHANGED <<existingProducts, searchResponse>>
  /\ upc = "awaitMetaGet"
  /\ UploaderFrame
  /\ UNCHANGED <<categoryIds, wooCommerceProduct, firstError, retryError, response>>
  /\ \E answer \in ProductAnswers :
       IF answer.ok /\ answer.hasData
         THEN /\ upc' = "awaitMetaPut"
              /\ requests' = Append(requests,
                   ProductPut(response.id, mergeMeta(answer.data, wooCommerceProduct.meta_data)))
              /\ UNCHANGED <<outcome, metaError>>
         ELSE /\ metaError' = IF answer.ok THEN TypeError ELSE NetworkError(Len(requests))
              /\ outcome' = MetaFailure(response.id)
              /\ upc' = outcome'.kind
              /\ UNCHANGED requests

\* lines 359-367 and 306: the PUT answers either way, and the id is returned
MetaPutAnswer ==
  /\ UNCHANGED <<existingProducts, searchResponse>>
  /\ upc = "awaitMetaPut"
  /\ UploaderFrame
  /\ UNCHANGED <<categoryIds, wooCommerceProduct, requests, firstError, retryError, response>>
  /\ \E ok \in BOOLEAN :
       /\ metaError' = IF ok THEN NoError ELSE NetworkError(Len(requests))
       /\ outcome' = IF ok THEN ResolvedWith(response.id) ELSE MetaFailure(response.id)
       /\ upc' = outcome'.kind

(***************************************************************************)
(* The feature cascade of scrapeWordPressSite and scrapeCustomSite.         *)
(*                                                                          *)
(* A markup fragment is the sequence of its elements in document order,     *)
(* each with its tag and its textContent: "li" and "p" are list items and   *)
(* paragraphs, "xli" is a list item inside a related-products section (one  *)
(* that isInExcludedSection accepts).                                       *)
(***************************************************************************)
Node(tag, text) == [tag |-> tag, text |-> text]

\* element.innerHTML of a fragment
RECURSIVE innerHTML(_)
innerHTML(nodes) ==
  IF nodes = <<>> THEN <<>>
  ELSE LET n == Head(nodes)
           name == IF n.tag = "p" THEN <<"p">> ELSE <<"l", "i">>
       IN <<"<">> \o name \o <<">">> \o n.text \o <<"<", "/">> \o name \o <<">">>
          \o innerHTML(Tail(nodes))

\* tempDiv.innerHTML = html: the elements of a short description read as markup
parseShort(short) ==
  IF short.wrap = "p" THEN << Node("p", short.text) >> ELSE <<>>

\* data.description, as lines 111-114 (63-66) store it
descriptionOf(pg) == trim(innerHTML(pg.description))

\* data.short_description: innerHTML.trim() || textContent.trim() in
\* scrapeWordPressSite, textContent.trim() in scrapeCustomSite
shortDescriptionOf(st, pg) ==
  IF st = "wordpress" /\ pg.short.wrap = "p"
    THEN trim(innerHTML(<< Node("p", pg.short.text) >>))
    ELSE trim(pg.short.text)

\* querySelectorAll('li, .feature-item, [class*="feature"], dt, dd, p')
featureItems(nodes) == SelectSeq(nodes, LAMBDA n : n.tag \in {"li", "xli", "p"})
\* querySelectorAll('ol li, ul li')
olItems(nodes) == SelectSeq(nodes, LAMBDA n : n.tag \in {"li", "xli"})
\* querySelectorAll('p')
paragraphs(nodes) == SelectSeq(nodes, LAMBDA n : n.tag = "p")

\* isInExcludedSection(item) for an item of the element el (el = <<>>: a fragment)
isInExcludedSection(n, el) == n.tag = "xli" \/ (el # <<>> /\ el[1].excluded)

\* the selectors of featureSelectors, as far as the pages tell them apart: the
\* class selectors, then 'ul:has(li)' and 'ol:has(li)'
featureSelectors == <<"class", "anyList">>

\* querySelector(selector) on the page: <<element>>, or <<>> for null
querySelector(pg, selector) ==
  IF pg.list # <<>> /\ pg.list[1].bySelector = selector THEN pg.list ELSE <<>>

\* lines 225-236 of scrapeWordPressSite: the loop leaves the first hit outside the
\* excluded sections, or else whatever the last selector gave
RECURSIVE locateWordPress(_, _, _)
locateWordPress(pg, i, current) ==
  IF i > Len(featureSelectors) THEN current
  ELSE LET hit == querySelector(pg, featureSelectors[i])
       IN IF hit # <<>> /\ ~hit[1].excluded THEN hit
          ELSE locateWordPress(pg, i + 1, hit)

\* lines 212-224 of scrapeCustomSite: the first hit
RECURSIVE locateCustom(_, _, _)
locateCustom(pg, i, current) ==
  IF i > Len(featureSelectors) THEN current
  ELSE LET hit == querySelector(pg, featureSelectors[i])
       IN IF hit # <<>> THEN hit ELSE locateCustom(pg, i + 1, hit)

\* item.textContent, as the element has it
textContent(n) == n.text

\* the text of an item taken without trimming it
featureTextUntrimmed(n) == textContent(n)

\* const featureText = item.textContent.trim()
featureTextOf(n) == trim(textContent(n))

\* the texts forEach pushes for the items it keeps, in document order
textsOf(nodes) == [i \in 1..Len(nodes) |-> featureTextOf(nodes[i])]

\* a strategy that runs whatever the earlier ones found
notGuarded(fs) == TRUE

\* data.features.length === 0, the condition of strategies 3 to 6
stillEmpty(fs) == Len(fs) = 0

\* strategy 2 (lines 238-255 and 226-241): the labelled span of the page text
strategy2(st, pg) ==
  LET featuresMatch == IF st = "wordpress" THEN featuresMatchWordPress(pg.text)
                       ELSE featuresMatchCustom(pg.text)
  IN IF featuresMatch # <<>> /\ featuresMatch[1] # <<>>
       THEN IF st = "wordpress"
              THEN segments(trim(featuresMatch[1]), TRUE, Keywords2, MinFeatureLength,
                            StopPhrases \cup {W_vizhegi}, TRUE)
              ELSE segments(trim(featuresMatch[1]), TRUE, {}, MinFeatureLength,
                            StopPhrasesCustom2, FALSE)
       ELSE <<>>

\* strategy 3 (lines 257-277 and 243-261): the markup of the description, or of
\* the short description when there is no description
strategy3(st, pg) ==
  LET nodes == IF descriptionOf(pg) # <<>> THEN pg.description
               ELSE IF shortDescriptionOf(st, pg) # <<>>
                 THEN (IF st = "wordpress" THEN parseShort(pg.short) ELSE <<>>)
               ELSE <<>>
      keep(n) == /\ featureTextOf(n) # <<>>
                 /\ Len(featureTextOf(n)) > MinFeatureLength
                 /\ ~startsWithAny(featureTextOf(n), StopPhrases, FALSE)
                 /\ (st = "wordpress" => ~isInExcludedSection(n, <<>>))
  IN textsOf(SelectSeq(featureItems(nodes), keep))

\* strategy 4 (lines 279-288 and 263-272): the items of the features element
strategy4(st, el) ==
  LET keep(n) == /\ featureTextOf(n) # <<>>
                 /\ Len(featureTextOf(n)) > MinFeatureLength
                 /\ (st = "wordpress" => ~isInExcludedSection(n, el))
  IN textsOf(SelectSeq(featureItems(el[1].items), keep))

\* a slip at line 310: the whole short description is split whenever the split
\* after the label kept nothing
strategy5Fallback(st, pg) ==
  LET shortDescText == shortDescriptionOf(st, pg)
      featuresSection == featuresSectionMatch(shortDescText)
      labelled == IF st = "wordpress" /\ featuresSection # <<>>
                    THEN segments(trim(featuresSection[1]), FALSE, Keywords5Label,
                                  MinShortFeatureLength, StopPhrases \cup {W_vizhegi}, TRUE)
                    ELSE <<>>
  IN IF labelled # <<>> THEN labelled
     ELSE segments(shortDescText, st # "wordpress", IF st = "wordpress" THEN Keywords5 ELSE {},
                   MinShortFeatureLength, StopPhrases \cup {W_vizhegi}, st = "wordpress")

\* strategy 5 (lines 290-321 and 275-288): the text of the short description;
\* <<the segments>>, or <<>> when nothing is assigned
strategy5(st, pg) ==
  LET shortDescText == shortDescriptionOf(st, pg)
  IN IF st = "wordpress"
       THEN LET featuresSection == featuresSectionMatch(shortDescText)
            IN IF featuresSection # <<>>
                 THEN segments(trim(featuresSection[1]), FALSE, Keywords5Label,
                               MinShortFeatureLength, StopPhrases \cup {W_vizhegi}, TRUE)
                 ELSE segments(shortDescText, FALSE, Keywords5,
                               MinShortFeatureLength, StopPhrases \cup {W_vizhegi}, TRUE)
       ELSE segments(shortDescText, TRUE, {}, MinShortFeatureLength,
                     StopPhrases \cup {W_vizhegi}, FALSE)

\* /^\d+\.|^[•\-\*]|keyword/i on a paragraph of strategy 6
looksLikeFeature(text) ==
  \/ NumberMarkerAt(text, 1)
  \/ BulletAt(text, 1)
  \/ \E i \in 1..Len(text) : AnyAt(text, i, Keywords2, TRUE)

\* strategy 6 (lines 323-351 of scrapeWordPressSite): list items of the
\* description, and its paragraphs when there are no list items
strategy6(pg) ==
  LET keepItem(n) == /\ featureTextOf(n) # <<>>
                     /\ Len(featureTextOf(n)) > MinFeatureLength
                     /\ ~startsWithAny(featureTextOf(n), StopPhrases, FALSE)
      keepParagraph(n) == /\ looksLikeFeature(featureTextOf(n))
                          /\ Len(featureTextOf(n)) > MinShortFeatureLength
                          /\ ~startsWithAny(featureTextOf(n), StopPhrases, FALSE)
      fromItems == textsOf(SelectSeq(olItems(pg.description), keepItem))
  IN IF fromItems # <<>> THEN fromItems
     ELSE textsOf(SelectSeq(paragraphs(pg.description), keepParagraph))

\* a list spread without going through a Set
keepAll(fs, seen) == fs

\* [...new Set(list)]: first occurrences, in order
RECURSIVE uniq(_, _)
uniq(fs, seen) ==
  IF fs = <<>> THEN <<>>
  ELSE IF Head(fs) \in seen THEN uniq(Tail(fs), seen)
  ELSE << Head(fs) >> \o uniq(Tail(fs), seen \cup {Head(fs)})

\* line 354 (291): [...new Set(data.features.filter(f => f && f.length > 3))]
cleanUp(fs) == uniq(SelectSeq(fs, LAMBDA f : f # <<>> /\ Len(f) > MinFeatureLength), {})

ScraperFrame ==
  /\ UNCHANGED <<site, page>> /\ UNCHANGED uploaderVars /\ UNCHANGED mainVars
  /\ UNCHANGED imageVars /\ UNCHANGED dispatchVars

\* data.features = found if (found.length > 0), of strategies 2 and 5
Assign(id, found) ==
  IF Len(found) > 0
    THEN features' = found /\ strategy' = strategy \cup {id}
    ELSE UNCHANGED <<features, strategy>>

\* data.features.push(featureText) for each kept item, of strategies 3, 4 and 6
Push(id, found) ==
  /\ features' = features \o found
  /\ strategy' = IF Len(found) > 0 THEN strategy \cup {id} ELSE strategy

\* strategy 1: the features element is looked for
LocateFeaturesList ==
  /\ spc = "strategy1"
  /\ ScraperFrame
  /\ featuresList' = IF site = "wordpress" THEN locateWordPress(page, 1, <<>>)
                     ELSE locateCustom(page, 1, <<>>)
  /\ spc' = "strategy2"
  /\ UNCHANGED <<features, strategy>>

Strategy2 ==
  /\ spc = "strategy2"
  /\ ScraperFrame
  /\ Assign(2, strategy2(site, page))
  /\ spc' = "strategy3"
  /\ UNCHANGED featuresList

Strategy3 ==
  /\ spc = "strategy3"
  /\ ScraperFrame
  /\ IF stillEmpty(features)
       THEN Push(3, strategy3(site, page))
       ELSE UNCHANGED <<features, strategy>>
  /\ spc' = "strategy4"
  /\ UNCHANGED featuresList

Strategy4 ==
  /\ spc = "strategy4"
  /\ ScraperFrame
  /\ IF featuresList # <<>> /\ stillEmpty(features)
       THEN Push(4, strategy4(site, featuresList))
       ELSE UNCHANGED <<features, strategy>>
  /\ spc' = "strategy5"
  /\ UNCHANGED featuresList

Strategy5 ==
  /\ spc = "strategy5"
  /\ ScraperFrame
  /\ IF stillEmpty(features) /\ shortDescriptionOf(site, page) # <<>>
       THEN Assign(5, strategy5(site, page))
       ELSE UNCHANGED <<features, strategy>>
  /\ spc' = IF site = "wordpress" THEN "strategy6" ELSE "cleanup"
  /\ UNCHANGED featuresList

Strategy6 ==
  /\ spc = "strategy6"
  /\ ScraperFrame
  /\ IF stillEmpty(features) /\ descriptionOf(page) # <<>>
       THEN Push(6, strategy6(page))
       ELSE UNCHANGED <<features, strategy>>
  /\ spc' = "cleanup"
  /\ UNCHANGED featuresList

\* the last statement before return data
CleanUp ==
  /\ spc = "cleanup"
  /\ ScraperFrame
  /\ features' = cleanUp(features)
  /\ spc' = "done"
  /\ UNCHANGED <<featuresList, strategy>>

(***************************************************************************)
(* The pages the scrapers are run on.                                       *)
(***************************************************************************)
T_feature == W_vazn \o <<" ", "1", "2">>
T_padded == <<" ", "a", "b", "c", "d", " ">>
T_short == <<"a", "b", " ", " ">>
T_stop == W_brand \o <<" ", "x">>
ItemTexts == {T_feature, T_padded, T_short, T_stop}

ListNodes == { Node("li", t) : t \in ItemTexts } \cup { Node("xli", T_feature) }
DescriptionNodes ==
  { Node("li", T_feature), Node("li", T_stop), Node("p", T_padded), Node("p", T_short),
    Node("xli", T_feature) }

LabelText == W_vizhegi \o <<" ">> \o W_haye \o <<" ">> \o W_mahsul \o <<":", " ">>
\* the label, then two statements that start with keywords
P_labelled == LabelText \o W_motor \o <<" ", "x", "1", " ">> \o W_vazn \o <<" ", "1", "2">>
\* the label written with a zero-width non-joiner, then numbered lines, one
\* short and one a repetition of the first
P_numbered ==
  W_vizhegi \o <<ZWNJ>> \o W_haye \o <<" ">> \o W_mahsul \o <<NL>>
  \o <<"1", ".", " ", "a", "b", "c", "d", NL, "2", ".", " ", "a", "b", NL,
       "3", ".", " ", "e", "f", "g", "h", NL, "1", ".", " ", "a", "b", "c", "d">>
\* the English label, a bullet, and a bullet that starts with a stop-phrase
P_english ==
  <<"F", "e", "a", "t", "u", "r", "e", "s", ":", " ", "-", " ", "e", "f", "g", "h", "i", "j",
    " ", "-", " ">> \o W_brand \o <<" ", "x", "y">>
P_stop == <<NL>> \o W_brand \o <<":", " ", "x", NL>>
P_breaks == <<NL, NL, NL>>
P_keyword == W_sharzh \o <<" ", "a", "b", " ">>
Pieces == {P_labelled, P_numbered, P_english, P_stop, P_breaks, P_keyword}

\* how many items the features element, pieces the page text, elements the
\* description and pieces the short description have
Sizes ==
  { q \in (0..MaxParts) \X (0..MaxParts) \X (0..MaxParts) \X (0..MaxParts) :
      q[1] + q[2] + q[3] + q[4] <= MaxParts }

\* the features element: none, or one the class selectors or the list selectors
\* find, inside or outside a related-products section
Lists(st, n) ==
  (IF n = 0 THEN {<<>>} ELSE {})
    \cup { << [excluded |-> FALSE, bySelector |-> "class", items |-> it] >> :
             it \in [1..n -> ListNodes] }
    \cup (IF st = "wordpress" /\ n > 0
            THEN { << [excluded |-> TRUE, bySelector |-> g, items |-> it] >> :
                     g \in {"class", "anyList"}, it \in [1..n -> ListNodes] }
                 \cup { << [excluded |-> FALSE, bySelector |-> "anyList", items |-> it] >> :
                     it \in [1..n -> ListNodes] }
            ELSE {})

Shorts(st, n) ==
  { [wrap |-> w, text |-> Concat(t)] :
      w \in (IF st = "wordpress" /\ n > 0 THEN {"none", "p"} ELSE {"none"}),
      t \in [1..n -> Pieces] }

PagesOfSize(st, q) ==
  { [list |-> l, text |-> Concat(t), description |-> d, short |-> sh] :
      l \in Lists(st, q[1]), t \in [1..q[2] -> Pieces],
      d \in [1..q[3] -> DescriptionNodes], sh \in Shorts(st, q[4]) }

Pages(st) == UNION { PagesOfSize(st, q) : q \in Sizes }

(***************************************************************************)
(* The product data uploadProduct is called with.                           *)
(***************************************************************************)
Field(k, v) == [x \in {k} |-> v]
\* a field that is absent, or has one of the values
Optional(k, values) == {EmptyObject} \cup { Field(k, v) : v \in values }

LongDescription == Repeat("x", DescriptionLimit + 1)
LongShortDescription == Repeat("y", ShortDescriptionLimit + 1)
ShortText == <<"s", "u", "m">>
DescriptionText == <<"<", "p", ">", "d", "<", "/", "p", ">">>
SkuText == <<"A", "1">>

\* name, prices and images: all absent, all empty, or all scraped
Profiles ==
  { EmptyObject,
    [name |-> <<>>, regular_price |-> Zero, sale_price |-> <<>>, images |-> <<>>],
    [name |-> <<"N">>, regular_price |-> <<"1", "0">>, sale_price |-> <<"9">>,
     images |-> << [src |-> <<"u">>] >>] }

\* two texts that are one feature once trimmed, with both characters that are escaped
FeatureTexts == { <<" ", "a", "<", "b", ">", " ">>, <<"a", "<", "b", ">">> }

\* a list as the scrapers return it, one entry longer than the summary takes
ManyFeatures == [i \in 1..(SummaryCount + 1) |-> <<"f", "e", "a", "t", ToString(i)>>]
RECURSIVE SeqsUpTo(_, _)
SeqsUpTo(S, n) ==
  IF n = 0 THEN {<<>>}
  ELSE LET shorter == SeqsUpTo(S, n - 1)
       IN shorter \cup { Append(q, x) : q \in { r \in shorter : Len(r) = n - 1 }, x \in S }

\* a short description that already carries the word of the features label
LabelledShortText == <<"s", " ">> \o W_vizhegi

\* description and short description: absent, empty, scraped, or too long
Descriptions ==
  { EmptyObject,
    [short_description |-> ShortText],
    [description |-> DescriptionText],
    [description |-> <<>>, short_description |-> <<>>],
    [description |-> <<>>, short_description |-> ShortText],
    [description |-> DescriptionText, short_description |-> ShortText],
    [description |-> DescriptionText, short_description |-> LabelledShortText],
    [description |-> LongDescription, short_description |-> LongShortDescription] }

Products ==
  { Merge(Merge(Merge(Merge(pr, d), k), c), f) :
      pr \in Profiles,
      d \in Descriptions,
      k \in Optional("sku", {<<>>, SkuText}),
      c \in Optional("categories", {<<>>, << [name |-> CatName], [name |-> DogName] >>}),
      f \in Optional("features", SeqsUpTo(FeatureTexts, MaxFeatures) \cup {ManyFeatures}) }

(***************************************************************************)
(* main: the command line run.                                              *)
(***************************************************************************)
\* what scrapeProduct returns: the data object of the scrapers, which has every
\* field from its initialisation on, and features as the clean-up leaves them
ScrapedProducts ==
  { Put(pd, "tags", <<>>) :
      pd \in { q \in Products :
                 /\ {"name", "description", "short_description", "regular_price",
                     "sale_price", "sku", "images", "categories", "features"}
                      \subseteq DOMAIN q
                 /\ cleanUp(q.features) = q.features
                 /\ \A i \in 1..Len(q.features) : trim(q.features[i]) = q.features[i] } }

MainFrame ==
  /\ UNCHANGED scraperVars /\ UNCHANGED envOk
  /\ UNCHANGED imageVars /\ UNCHANGED dispatchVars

\* a slip at line 102: the catch block ends the process as if nothing had failed
exitZero(kind) == 0

\* lines 62-103: the code main ends with once uploadProduct has settled; a
\* rejection is caught at line 84 and leads to process.exit(1)
exitAfterUpload(kind) == IF kind = "resolved" THEN 0 ELSE 1

\* lines 79-81: the summary reads the length of three arrays
summaryThrows(pd) == ~Has(pd, "images") \/ ~Has(pd, "categories") \/ ~Has(pd, "tags")

\* lines 18-52: the argument is checked, then scrapeProduct is called
MainStart ==
  /\ mpc = "start"
  /\ MainFrame
  /\ UNCHANGED <<productData, upc, categoryIds, wooCommerceProduct, requests, firstError,
                 retryError, response, outcome, existingProducts, searchResponse, metaError, argv>>
  /\ IF argv = "none" \/ argv = "invalid"
       THEN mpc' = "exited" /\ exitCode' = <<1>>
       ELSE mpc' = "awaitScrape" /\ UNCHANGED exitCode

\* lines 52-62 and 84-102: scrapeProduct throws, or returns the product data
\* uploadProduct is then called with
ScrapeAnswer ==
  /\ mpc = "awaitScrape"
  /\ MainFrame
  /\ UNCHANGED <<categoryIds, wooCommerceProduct, requests, firstError, retryError,
                 response, outcome, existingProducts, searchResponse, metaError, argv>>
  /\ \/ /\ mpc' = "exited"
        /\ exitCode' = <<1>>
        /\ UNCHANGED <<productData, upc>>
     \/ \E pd \in ScrapedProducts :
          /\ productData' = pd
          /\ upc' = "start"
          /\ mpc' = "awaitUpload"
          /\ UNCHANGED exitCode

\* lines 62-103: uploadProduct has settled
UploadSettled ==
  /\ mpc = "awaitUpload"
  /\ upc \in {"resolved", "rejected"}
  /\ MainFrame
  /\ UNCHANGED <<productData, upc, categoryIds, wooCommerceProduct, requests, firstError,
                 retryError, response, outcome, existingProducts, searchResponse, metaError, argv>>
  /\ mpc' = "exited"
  /\ exitCode' = IF outcome.kind = "resolved" /\ summaryThrows(productData)
                   THEN <<1>>
                   ELSE << exitAfterUpload(outcome.kind) >>

(***************************************************************************)
(* Specifications.                                                          *)
(***************************************************************************)
UploaderIdle ==
  /\ envOk = TRUE
  /\ productData = EmptyObject
  /\ upc = "idle"
  /\ categoryIds = <<>>
  /\ wooCommerceProduct = EmptyObject
  /\ requests = <<>>
  /\ firstError = NoError
  /\ retryError = NoError
  /\ response = NoResponse
  /\ outcome = Pending
  /\ existingProducts = <<>>
  /\ searchResponse = <<>>
  /\ metaError = NoError

ScraperIdle ==
  /\ site = "none"
  /\ page = EmptyObject
  /\ spc = "idle"
  /\ featuresList = EmptyObject
  /\ features = <<>>
  /\ strategy = {}

MainIdle ==
  /\ argv = "none"
  /\ mpc = "idle"
  /\ exitCode = <<>>

(***************************************************************************)
(* processAndUploadImages: the images are downloaded, cleaned and uploaded  *)
(* to the media library.  An entry of imageUrls is a string or an object    *)
(* with a src, as the scrapers push them.                                   *)
(***************************************************************************)
\* the most images handed to processAndUploadImages
MaxImages == 2

UrlA == <<"h", "/", "a", ".", "j", "p", "g">>
UrlB == <<"h", "/", "i", "/", "b">>
ImageEntries ==
  { [form |-> "string", url |-> UrlA],
    [form |-> "string", url |-> UrlB],
    [form |-> "object", src |-> UrlA] }

\* what processAndUploadImages may be called with: an array of entries, or
\* something that is not an array
ImageArguments ==
  { [isArray |-> FALSE, items |-> <<>>] }
    \cup { [isArray |-> TRUE, items |-> s] :
             s \in UNION { [1..n -> ImageEntries] : n \in 0..MaxImages } }

\* line 94: typeof img === 'string' ? img : img.src || img
imageUrlOf(img) == IF img.form = "string" THEN img.url ELSE img.src

\* imageUrl.split('/').pop()
lastSegment(url) ==
  LET slashes == { i \in 1..Len(url) : url[i] = "/" }
      from == IF slashes = {} THEN 1
              ELSE (CHOOSE i \in slashes : \A j \in slashes : j <= i) + 1
  IN SubSeq(url, from, Len(url))

\* what the media library answers to an upload that succeeds
MediaAnswers ==
  { [id |-> 11, source_url |-> <<"m", "/", "1">>, filename |-> <<"1">>] }
\* err.message of a download or a watermark removal that fails
ProcessFailures == { "Request failed with status code 404" }
\* err.message of uploadBufferToWPMedia when it throws (lines 25 and 76-79)
UploadFailures ==
  { "Missing WOOCOMMERCE_URL or WP_API_USER/WP_API_APP_PASSWORD in .env",
    "WP Media upload failed (status): data" }

\* lines 106-111: the entry of an image that was uploaded
uploadedEntry(imageUrl, uploaded) ==
  [id |-> uploaded.id, src |-> uploaded.source_url, filename |-> uploaded.filename,
   originalUrl |-> imageUrl]

\* a slip at line 118: the entry of a failed image loses the image
fallbackWithoutSrc(imageUrl, message) ==
  [id |-> 0, src |-> <<>>, filename |-> lastSegment(imageUrl), originalUrl |-> imageUrl,
   error |-> message]

\* lines 116-122: the entry of an image that failed; id 0 stands for null
fallbackEntry(imageUrl, message) ==
  [id |-> 0, src |-> imageUrl, filename |-> lastSegment(imageUrl), originalUrl |-> imageUrl,
   error |-> message]

\* a slip at line 92: the images are all started at once
allAtOnce(urls) == [i \in 1..Len(urls) |-> i]

\* line 92: the loop is entered with the first image
firstToStart(urls) == <<1>>

ImagesFrame ==
  /\ UNCHANGED uploaderVars /\ UNCHANGED scraperVars /\ UNCHANGED mainVars
  /\ UNCHANGED dispatchVars /\ UNCHANGED imageUrls

\* lines 88-97: the guard, and the first call of processProductImage
ImagesStart ==
  /\ ipc = "start"
  /\ ImagesFrame
  /\ IF ~imageUrls.isArray \/ Len(imageUrls.items) = 0
       THEN /\ ipc' = "done"
            /\ UNCHANGED <<idx, results, started, finished>>
       ELSE /\ ipc' = "process"
            /\ idx' = 1
            /\ started' = firstToStart(imageUrls.items)
            /\ UNCHANGED <<results, finished>>

\* lines 106-124: an entry is pushed and the loop goes on to the next image, or
\* ends
PushAndGoOn(entry) ==
  /\ results' = Append(results, entry)
  /\ finished' = Append(finished, idx)
  /\ IF idx < Len(imageUrls.items)
       THEN /\ idx' = idx + 1
            /\ started' = Append(started, idx + 1)
            /\ ipc' = "process"
       ELSE /\ ipc' = "done"
            /\ UNCHANGED <<idx, started>>

\* lines 97-101 and 113-122: processProductImage has settled
ProcessAnswer ==
  /\ ipc = "process"
  /\ ImagesFrame
  /\ \/ /\ ipc' = "upload"
        /\ UNCHANGED <<idx, results, started, finished>>
     \/ \E message \in ProcessFailures :
          PushAndGoOn(fallbackEntry(imageUrlOf(imageUrls.items[idx]), message))

\* lines 101-122: uploadBufferToWPMedia has settled
UploadAnswer ==
  /\ ipc = "upload"
  /\ ImagesFrame
  /\ \/ \E uploaded \in MediaAnswers :
          PushAndGoOn(uploadedEntry(imageUrlOf(imageUrls.items[idx]), uploaded))
     \/ \E message \in UploadFailures :
          PushAndGoOn(fallbackEntry(imageUrlOf(imageUrls.items[idx]), message))

(***************************************************************************)
(* scrapeProduct: the browser is launched, the page is opened and handed to *)
(* the scraper of its kind of site.  Each action is the code that runs from *)
(* one await to the next.                                                   *)
(***************************************************************************)
Urls == { <<"h", "/", "p", "1">>, <<"h", "/", "p", "2">> }
\* the url, and whether PUPPETEER_EXECUTABLE_PATH is set
DispatchArguments == { [url |-> u, executablePath |-> e] : u \in Urls, e \in BOOLEAN }

\* an error thrown by puppeteer or by a scraper: its name, and where it arose
Thrown(name, at) == [name |-> name, at |-> at, url |-> <<>>]
ThrownAt(at) == { Thrown("Error", at), Thrown("TimeoutError", at) }
\* what a scraper returns
ScrapedData ==
  { [name |-> <<>>, images |-> <<>>, categories |-> <<>>, tags |-> <<>>, features |-> <<>>],
    [name |-> <<"N">>, images |-> <<>>, categories |-> <<>>, tags |-> <<>>,
     features |-> ManyFeatures] }

Unsettled == [kind |-> "pending", value |-> <<>>]
Returns(data) == [kind |-> "resolved", value |-> data]
Throws(error) == [kind |-> "rejected", value |-> error]

\* lines 118-125: what the catch block throws for the error it caught
catchOf(error, url) ==
  IF error.name = "TimeoutError" THEN [name |-> "Error", at |-> "timeout", url |-> url]
  ELSE error

\* a slip at line 128: the browser is left open
leaveOpen(b) == FALSE

\* line 128: if (browser)
shouldClose(b) == b

DispatchFrame ==
  /\ UNCHANGED uploaderVars /\ UNCHANGED scraperVars /\ UNCHANGED mainVars
  /\ UNCHANGED imageVars /\ UNCHANGED dargs

\* lines 126-132: the finally block, entered with what the try or the catch
\* block has returned or thrown and with the value browser has by then
Finally(completion, b) ==
  /\ settlement' = completion
  /\ IF shouldClose(b)
       THEN dpc' = "close" /\ closeCalls' = closeCalls + 1
       ELSE dpc' = "settled" /\ UNCHANGED closeCalls

\* line 65: puppeteer.launch settles
Launch ==
  /\ dpc = "launch"
  /\ DispatchFrame
  /\ UNCHANGED isWordPress
  /\ \/ /\ browser' = TRUE
        /\ dpc' = "newPage"
        /\ UNCHANGED <<closeCalls, settlement>>
     \/ \E error \in ThrownAt("launch") :
          /\ UNCHANGED browser
          /\ Finally(Throws(catchOf(error, dargs.url)), browser)

\* an awaited call of the page settles: the next one is made, or the error is
\* caught
PageStep(here, next) ==
  /\ DispatchFrame
  /\ UNCHANGED <<browser, isWordPress>>
  /\ \/ /\ dpc' = next
        /\ UNCHANGED <<closeCalls, settlement>>
     \/ \E error \in ThrownAt(here) :
          Finally(Throws(catchOf(error, dargs.url)), browser)

\* line 66: browser.newPage
NewPage ==
  /\ dpc = "newPage"
  /\ PageStep("newPage", "setUserAgent")
\* line 69: page.setUserAgent
SetUserAgent ==
  /\ dpc = "setUserAgent"
  /\ PageStep("setUserAgent", "goto")
\* lines 73-76: page.goto
Goto ==
  /\ dpc = "goto"
  /\ PageStep("goto", "wait")

\* line 81: the timer of two seconds fires
Wait ==
  /\ dpc = "wait"
  /\ DispatchFrame
  /\ dpc' = "waitForSelector"
  /\ UNCHANGED <<browser, closeCalls, isWordPress, settlement>>

\* lines 84-89: page.waitForSelector settles; a failure is only logged
WaitForSelector ==
  /\ dpc = "waitForSelector"
  /\ DispatchFrame
  /\ dpc' = "detect"
  /\ UNCHANGED <<browser, closeCalls, isWordPress, settlement>>

\* lines 15-33 and 92: isWordPressSite settles; a failure counts as a custom site
Detect ==
  /\ dpc = "detect"
  /\ DispatchFrame
  /\ \E found \in {"wordpress", "custom"} : isWordPress' = found
  /\ dpc' = "scrape"
  /\ UNCHANGED <<browser, closeCalls, settlement>>

\* lines 95-116: the scraper of the site settles
Scrape ==
  /\ dpc = "scrape"
  /\ DispatchFrame
  /\ UNCHANGED <<browser, isWordPress>>
  /\ \/ \E data \in ScrapedData : Finally(Returns(data), browser)
     \/ \E error \in ThrownAt(isWordPress) :
          Finally(Throws(catchOf(error, dargs.url)), browser)

\* line 129: browser.close settles; if it fails, its error is what scrapeProduct
\* throws
CloseAnswer ==
  /\ dpc = "close"
  /\ DispatchFrame
  /\ dpc' = "settled"
  /\ UNCHANGED <<browser, closeCalls, isWordPress>>
  /\ \/ UNCHANGED settlement
     \/ settlement' = Throws(Thrown("Error", "close"))

ImagesIdle ==
  /\ imageUrls = [isArray |-> TRUE, items |-> <<>>]
  /\ ipc = "idle"
  /\ idx = 0
  /\ results = <<>>
  /\ started = <<>>
  /\ finished = <<>>

DispatchIdle ==
  /\ dargs = EmptyObject
  /\ dpc = "idle"
  /\ browser = FALSE
  /\ closeCalls = 0
  /\ isWordPress = "unknown"
  /\ settlement = Unsettled

\* uploadProduct has been called
UploaderInit ==
  /\ envOk \in BOOLEAN
  /\ productData \in Products
  /\ upc = "start"
  /\ categoryIds = <<>>
  /\ wooCommerceProduct = EmptyObject
  /\ requests = <<>>
  /\ firstError = NoError
  /\ retryError = NoError
  /\ response = NoResponse
  /\ outcome = Pending
  /\ existingProducts = <<>>
  /\ searchResponse = <<>>
  /\ metaError = NoError

Init == UploaderInit /\ ScraperIdle /\ MainIdle /\ ImagesIdle /\ DispatchIdle

Next ==
  \/ UploadStart
  \/ CategoryAnswer
  \/ SkuAnswer
  \/ CreateAnswer
  \/ RetryAnswer
  \/ MetaGetAnswer
  \/ MetaPutAnswer

Spec == Init /\ [][Next]_vars

\* page.evaluate has reached the feature extraction of one of the scrapers
ScraperInit ==
  /\ site \in {"wordpress", "custom"}
  /\ page \in Pages(site)
  /\ spc = "strategy1"
  /\ featuresList = <<>>
  /\ features = <<>>
  /\ strategy = {}

InitScrape == ScraperInit /\ UploaderIdle /\ MainIdle /\ ImagesIdle /\ DispatchIdle

NextScrape ==
  \/ LocateFeaturesList
  \/ Strategy2
  \/ Strategy3
  \/ Strategy4
  \/ Strategy5
  \/ Strategy6
  \/ CleanUp

SpecScrape == InitScrape /\ [][NextScrape]_vars

\* node main.js has been started
InitMain ==
  /\ argv \in {"none", "invalid", "valid"}
  /\ mpc = "start"
  /\ exitCode = <<>>
  /\ envOk \in BOOLEAN
  /\ productData = EmptyObject
  /\ upc = "idle"
  /\ categoryIds = <<>>
  /\ wooCommerceProduct = EmptyObject
  /\ requests = <<>>
  /\ firstError = NoError
  /\ retryError = NoError
  /\ response = NoResponse
  /\ outcome = Pending
  /\ existingProducts = <<>>
  /\ searchResponse = <<>>
  /\ metaError = NoError
  /\ ScraperIdle
  /\ ImagesIdle
  /\ DispatchIdle

NextMain ==
  \/ MainStart
  \/ ScrapeAnswer
  \/ UploadSettled
  \/ UploadStart
  \/ CategoryAnswer
  \/ SkuAnswer
  \/ CreateAnswer
  \/ RetryAnswer
  \/ MetaGetAnswer
  \/ MetaPutAnswer

SpecMain == InitMain /\ [][NextMain]_vars

\* processAndUploadImages has been called
InitImages ==
  /\ imageUrls \in ImageArguments
  /\ ipc = "start"
  /\ idx = 0
  /\ results = <<>>
  /\ started = <<>>
  /\ finished = <<>>
  /\ UploaderIdle
  /\ ScraperIdle
  /\ MainIdle
  /\ DispatchIdle

NextImages ==
  \/ ImagesStart
  \/ ProcessAnswer
  \/ UploadAnswer

SpecImages == InitImages /\ [][NextImages]_vars

\* scrapeProduct has been called
InitDispatch ==
  /\ dargs \in DispatchArguments
  /\ dpc = "launch"
  /\ browser = FALSE
  /\ closeCalls = 0
  /\ isWordPress = "unknown"
  /\ settlement = Unsettled
  /\ UploaderIdle
  /\ ScraperIdle
  /\ MainIdle
  /\ ImagesIdle

NextDispatch ==
  \/ Launch
  \/ NewPage
  \/ SetUserAgent
  \/ Goto
  \/ Wait
  \/ WaitForSelector
  \/ Detect
  \/ Scrape
  \/ CloseAnswer

SpecDispatch == InitDispatch /\ [][NextDispatch]_vars

(***************************************************************************)
(* Properties of uploadProduct.                                             *)
(***************************************************************************)
\* the product-create POSTs issued so far, in order
Posts == SelectSeq(requests, LAMBDA r : r.method = "POST" /\ r.path = "products")

\* an HTTP 400 whose payload signals a duplicate or invalid SKU
SignalsSkuConflict(e) ==
  /\ e.kind = "http"
  /\ e.status = 400
  /\ e.data.present
  /\ \/ e.data.code = "product_invalid_sku"
     \/ (e.data.hasMessage /\ \E i \in 1..Len(e.data.message) :
           SubSeq(e.data.message, i, Min(i + 2, Len(e.data.message))) = <<"S", "K", "U">>)

\* C1: at most two product-create POSTs are ever issued, and when the first POST
\* failed with a 400 that signals the SKU, exactly one more POST has been issued,
\* with a payload that has no sku field.
C1_RetryOnce ==
  /\ Len(Posts) <= 2
  /\ (firstError # NoError /\ SignalsSkuConflict(firstError))
       => (Len(Posts) = 2 /\ ~Has(Posts[2].body, "sku"))

\* C1 witness: the run has ended after a SKU conflict and a resubmission of a
\* payload that first carried a sku.
C1_Witness ==
  /\ upc \in {"resolved", "rejected"}
  /\ SignalsSkuConflict(firstError)
  /\ Len(Posts) = 2
  /\ Has(Posts[1].body, "sku")

\* C2: the resubmitted payload has exactly the fields of the first payload except
\* sku, each with the value it had, and the payload object is at all times the
\* payload last submitted.
C2_OnlySkuRemoved ==
  /\ Len(Posts) = 2 =>
       /\ DOMAIN Posts[2].body = (DOMAIN Posts[1].body) \ {"sku"}
       /\ \A k \in DOMAIN Posts[2].body : Posts[2].body[k] = Posts[1].body[k]
  /\ Len(Posts) >= 1 => wooCommerceProduct = Posts[Len(Posts)].body

\* C2 witness: a payload with a sku, a sale price, both descriptions, attributes
\* and meta data was resubmitted.
C2_Witness ==
  /\ Len(Posts) = 2
  /\ {"sku", "sale_price", "description", "short_description", "attributes", "meta_data",
      "categories", "images", "regular_price"} \subseteq DOMAIN Posts[1].body

\* C3: when the first POST failed with anything but a 400 that signals the SKU,
\* no second POST was issued and uploadProduct has failed.
C3_NoRetryOtherwise ==
  (firstError # NoError /\ ~SignalsSkuConflict(firstError))
    => (Len(Posts) = 1 /\ upc = "rejected" /\ outcome.kind = "rejected")

\* C3 witness: the first POST failed with a 500 whose message names the SKU, or
\* without a response, and the run ended.
C3_Witness ==
  /\ upc = "rejected"
  /\ \/ firstError.kind = "network"
     \/ (firstError.kind = "http" /\ firstError.status = 500
          /\ firstError.data.message = MsgSku)

\* C4 as claimed: when the resubmission failed too, the error uploadProduct
\* throws is the error of the first POST.
C4_Original ==
  retryError # NoError => (outcome.kind = "rejected" /\ outcome.error = firstError)

\* the message of the error thrown for a 400: the payload's message, or its JSON
C4_MessageOf(e) ==
  IF e.data.present /\ e.data.hasMessage /\ e.data.message # <<>>
    THEN e.data.message
    ELSE JSONstringify(e.data)

\* C4 amended: when the resubmission failed too, uploadProduct fails with a new
\* error "Invalid product data: <message>" whose message is taken from the first
\* POST's error, never from the resubmission's.
C4_FirstErrorRendered ==
  retryError # NoError =>
    /\ outcome.kind = "rejected"
    /\ outcome.error = NewError("Invalid product data: ", C4_MessageOf(firstError))

\* C4 witness: both POSTs failed, with payloads that give different messages.
C4_Witness ==
  /\ retryError # NoError
  /\ upc = "rejected"
  /\ retryError.kind = "http"
  /\ C4_MessageOf(retryError) # C4_MessageOf(firstError)

\* C5 as claimed: after a create response has arrived, uploadProduct never fails.
C5_Original == response.received => upc # "rejected"

\* C5 amended: after a create response that carries a product id has arrived,
\* uploadProduct never fails: it is updating the meta data and can go on, or it
\* has resolved with that id.
C5_AcceptedWithId ==
  (response.received /\ response.hasData /\ response.id # 0) =>
    /\ upc \in {"awaitMetaGet", "awaitMetaPut", "resolved"}
    /\ upc = "resolved" => outcome = ResolvedWith(response.id)
    /\ upc = "awaitMetaGet" => ENABLED MetaGetAnswer
    /\ upc = "awaitMetaPut" => ENABLED MetaPutAnswer

\* C5 witness: the resubmission was answered with an id, the meta update failed,
\* and uploadProduct resolved.
C5_Witness ==
  /\ upc = "resolved"
  /\ Len(Posts) = 2
  /\ outcome.id = 42
  /\ requests[Len(requests)].method = "GET"

(***************************************************************************)
(* Properties of the feature cascade.                                       *)
(***************************************************************************)
\* what strategy k finds on the page, before the clean-up
outputOf(k) ==
  CASE k = 2 -> strategy2(site, page)
    [] k = 3 -> strategy3(site, page)
    [] k = 4 -> IF featuresList # <<>> THEN strategy4(site, featuresList) ELSE <<>>
    [] k = 5 -> IF shortDescriptionOf(site, page) # <<>> THEN strategy5(site, page) ELSE <<>>
    [] k = 6 -> IF descriptionOf(page) # <<>> THEN strategy6(page) ELSE <<>>

Entries(fs) == { fs[i] : i \in 1..Len(fs) }
NoDuplicates(fs) == \A i, j \in 1..Len(fs) : fs[i] = fs[j] => i = j
FirstIndex(fs, f) ==
  CHOOSE i \in 1..Len(fs) : fs[i] = f /\ \A j \in 1..(i - 1) : fs[j] # f

\* C6: when the items of the located features element give a non-empty list,
\* the returned feature list is exactly that list after the clean-up, whatever
\* the page text, the description and the short description hold.
C6_ContainerWins ==
  (spc = "done" /\ outputOf(4) # <<>>) => features = cleanUp(outputOf(4))

\* C7: the returned list comes from exactly one strategy: once the list is
\* non-empty no strategy step changes it, at most one strategy has stored
\* entries, and the returned list is the clean-up of what that strategy found.
C7_OneStrategy ==
  /\ [](/\ Cardinality(strategy) <= 1
        /\ strategy = {} => features = <<>>
        /\ spc = "done" => \A k \in strategy : features = cleanUp(outputOf(k)))
  /\ [][(features # <<>> /\ spc # "cleanup") => features' = features]_vars

\* a later strategy had entries of its own on a page where an earlier one won
C7_Witness ==
  /\ spc = "done"
  /\ \E k \in strategy : \E later \in (k + 1)..6 :
       /\ (later = 6 => site = "wordpress")
       /\ outputOf(later) # <<>>
       /\ outputOf(later) # outputOf(k)

\* C8: no entry of the returned feature list begins with a stop-phrase.
C8_NoStopPhrase ==
  spc = "done" =>
    \A i \in 1..Len(features) : ~startsWithAny(features[i], StopPhrases, FALSE)

\* C9: the clean-up returns a list without two equal entries, holding every
\* entry of more than three characters once, in the order of the first
\* occurrences in the list the strategy produced.
C9_Dedup ==
  [][spc = "cleanup" =>
       /\ NoDuplicates(features')
       /\ Entries(features') = { f \in Entries(features) : Len(f) > MinFeatureLength }
       /\ \A i, j \in 1..Len(features') :
            i < j => FirstIndex(features, features'[i]) < FirstIndex(features, features'[j])]_vars

\* the strategy produced an entry twice, with another entry between the two
C9_Witness ==
  /\ spc = "done"
  /\ Len(features) >= 2
  /\ \E k \in strategy : \E i, j \in 1..Len(outputOf(k)) :
       /\ i + 1 < j
       /\ outputOf(k)[i] = outputOf(k)[j]
       /\ outputOf(k)[i] = features[1]

\* C10: every entry of the returned feature list has more than three
\* characters after trimming.
C10_MinLength ==
  spc = "done" =>
    \A i \in 1..Len(features) : Len(trim(features[i])) > MinFeatureLength

\* a list is returned although the features element also held an item that is
\* longer than three characters only with the white space around it
C10_Witness ==
  /\ spc = "done"
  /\ features # <<>>
  /\ strategy = {4}
  /\ \E i \in 1..Len(featuresList[1].items) :
       /\ Len(textContent(featuresList[1].items[i])) > MinFeatureLength
       /\ Len(featureTextOf(featuresList[1].items[i])) <= MinFeatureLength

(***************************************************************************)
(* Properties of the payload uploadProduct builds.                          *)
(***************************************************************************)
\* the feature list uploadProduct was given is absent or empty
NoFeaturesGiven == ~Has(productData, "features") \/ productData.features = <<>>

\* <<the field>> of an object, or <<>> when the object has no such field
FieldOf(o, k) == IF Has(o, k) THEN << o[k] >> ELSE <<>>

\* the payload's description before the features are mapped: the scraped one,
\* unless it is empty or longer than the limit
DescriptionBefore ==
  IF Len(productData.description) > 0 /\ Len(productData.description) <= DescriptionLimit
    THEN << productData.description >> ELSE <<>>

\* the payload's short description before the features are mapped: the scraped
\* one, unless it is longer than the limit
ShortDescriptionBefore ==
  IF Len(productData.short_description) <= ShortDescriptionLimit
    THEN << productData.short_description >> ELSE <<>>

\* C11: with an absent or empty feature list every posted payload has no
\* attributes and no meta_data, its description and short_description are the
\* ones it has without the feature mapping, and the upload is not rejected
\* unless the configuration, a description or a request is at fault.
C11_Additive ==
  NoFeaturesGiven =>
    /\ \A i \in 1..Len(Posts) :
         /\ ~Has(Posts[i].body, "attributes")
         /\ ~Has(Posts[i].body, "meta_data")
         /\ FieldOf(Posts[i].body, "description") = DescriptionBefore
         /\ FieldOf(Posts[i].body, "short_description") = ShortDescriptionBefore
    /\ upc = "rejected" =>
         \/ ~envOk
         \/ ~Has(productData, "description")
         \/ ~Has(productData, "short_description")
         \/ firstError # NoError
         \/ response.received

\* a product with an empty feature list and a description has been posted
C11_Witness ==
  /\ Has(productData, "features")
  /\ productData.features = <<>>
  /\ Len(Posts) = 1
  /\ Has(Posts[1].body, "description")
  /\ upc = "resolved"

\* a feature list as the scrapers return it: trimmed, non-empty, distinct entries
ScrapedList(fs) ==
  /\ \A i \in 1..Len(fs) : fs[i] # <<>> /\ trim(fs[i]) = fs[i]
  /\ NoDuplicates(fs)

\* C12: for a non-empty feature list every posted payload carries exactly one
\* attribute, visible and not a variation, whose options leave out no feature
\* whatever the length of the list: each option is a trimmed entry of the list,
\* each non-blank entry is an option, and for a list as the scrapers return it
\* the options are the list itself, entry by entry.
C12_AllFeaturesAsOptions ==
  ~NoFeaturesGiven =>
    \A i \in 1..Len(Posts) :
      /\ Has(Posts[i].body, "attributes")
      /\ Len(Posts[i].body.attributes) = 1
      /\ LET attribute == Posts[i].body.attributes[1]
         IN /\ attribute.name = FeaturesLabel
            /\ attribute.visible = TRUE
            /\ attribute.variation = FALSE
            /\ NoDuplicates(attribute.options)
            /\ Entries(attribute.options)
                 = { trim(f) : f \in Entries(productData.features) } \ {<<>>}
            /\ ScrapedList(productData.features) =>
                 /\ Len(attribute.options) = Len(productData.features)
                 /\ attribute.options = productData.features

\* a list longer than the short-description summary has been posted in full
C12_Witness ==
  /\ Len(Posts) >= 1
  /\ Has(productData, "features")
  /\ ScrapedList(productData.features)
  /\ Len(productData.features) > SummaryCount
  /\ Len(Posts[1].body.attributes[1].options) = Len(productData.features)

\* C13: for a non-empty feature list every posted payload carries exactly one
\* meta entry, under the key dina_product_features, whose value has one element
\* for each option of the attribute, in the same order, with the option as its
\* title and an empty detail.
C13_MetaMirrorsOptions ==
  ~NoFeaturesGiven =>
    \A i \in 1..Len(Posts) :
      /\ Has(Posts[i].body, "meta_data")
      /\ Len(Posts[i].body.meta_data) = 1
      /\ LET entry == Posts[i].body.meta_data[1]
             options == Posts[i].body.attributes[1].options
         IN /\ entry.key = "dina_product_features"
            /\ Len(entry.value) = Len(options)
            /\ \A j \in 1..Len(options) :
                 /\ entry.value[j].ftitle = options[j]
                 /\ entry.value[j].fdesc = <<>>

\* a payload with two different features has been posted with its meta entry
C13_Witness ==
  /\ Len(Posts) >= 1
  /\ Has(Posts[1].body, "meta_data")
  /\ Len(Posts[1].body.meta_data[1].value) >= 2
  /\ Posts[1].body.meta_data[1].value[1].ftitle # Posts[1].body.meta_data[1].value[2].ftitle
  /\ Posts[1].body.meta_data[1].value[2].ftitle = Posts[1].body.attributes[1].options[2]

\* the rendered features of a posted payload
FragmentOf(body) == featuresHTMLOf(body.attributes[1].options)

\* C14: for a non-empty feature list the rendered features come first in every
\* posted description: followed by <br><br> and the scraped description when
\* that one is non-empty and within the limit of 700 characters, and alone when
\* it is empty or longer than the limit.
C14_FeaturesFirst ==
  ~NoFeaturesGiven =>
    \A i \in 1..Len(Posts) :
      /\ Has(Posts[i].body, "description")
      /\ Posts[i].body.description =
           IF DescriptionBefore # <<>>
             THEN FragmentOf(Posts[i].body) \o BrBr \o productData.description
             ELSE FragmentOf(Posts[i].body)

\* a scraped description within the limit has been posted behind the features
C14_Witness ==
  /\ Len(Posts) >= 1
  /\ ~NoFeaturesGiven
  /\ productData.description = DescriptionText
  /\ Posts[1].body.description
       = FragmentOf(Posts[1].body) \o BrBr \o DescriptionText

\* C14 as stated: the rendered features are the whole description only when the
\* scraped description is empty.
C14_Original ==
  ~NoFeaturesGiven =>
    \A i \in 1..Len(Posts) :
      Posts[i].body.description =
        IF productData.description # <<>>
          THEN FragmentOf(Posts[i].body) \o BrBr \o productData.description
          ELSE FragmentOf(Posts[i].body)

\* the first five options of a posted payload (all of them when there are
\* fewer), joined with the Persian comma
SummaryOf(body) ==
  LET options == body.attributes[1].options
  IN join([j \in 1..(IF Len(options) < SummaryCount THEN Len(options) ELSE SummaryCount)
             |-> options[j]], PersianComma)

\* C15: for a non-empty feature list the posted short description differs from
\* the one the payload has before the mapping if and only if that one is absent,
\* empty or without the word of the features label; it is then the first five
\* features joined, a dash and the former short description (the joined features
\* alone when there was none), and otherwise it is the former one.
C15_ShortDescription ==
  ~NoFeaturesGiven =>
    \A i \in 1..Len(Posts) :
      LET before == ShortDescriptionBefore
          after == FieldOf(Posts[i].body, "short_description")
          summary == SummaryOf(Posts[i].body)
      IN IF before = <<>> \/ before[1] = <<>>
           THEN after = << summary >> /\ after # before
           ELSE IF ~includes(before[1], W_vizhegi)
             THEN after = << summary \o <<" ", "-", " ">> \o before[1] >> /\ after # before
             ELSE after = before

\* six features and a short description without the label: exactly the first
\* five have been put in front of it
C15_Witness ==
  /\ Len(Posts) >= 1
  /\ ~NoFeaturesGiven
  /\ productData.features = ManyFeatures
  /\ productData.short_description = ShortText
  /\ Posts[1].body.short_description
       = join(SubSeq(ManyFeatures, 1, SummaryCount), PersianComma)
           \o <<" ", "-", " ">> \o ShortText

\* the product data has no name, or an empty one
Nameless == ~Has(productData, "name") \/ productData.name = <<>>

\* C16: product data without a name is not refused: every product-create POST
\* issued for it carries the name 'Untitled Product', and product data with a
\* name is posted under that name.
C16_DefaultName ==
  \A i \in 1..Len(Posts) :
    Posts[i].body.name = IF Nameless THEN UntitledProduct ELSE productData.name

\* product data without a name has been posted and uploadProduct has returned
C16_Witness ==
  /\ Nameless
  /\ Len(Posts) >= 1
  /\ Posts[1].body.name = UntitledProduct
  /\ upc = "resolved"

\* C16 as stated: for product data without a name no product-create POST is
\* issued and uploadProduct does not return normally.
C16_Original == Nameless => Posts = <<>> /\ upc # "resolved"

\* C17: every field of the product data is optional: with the configuration in
\* place uploadProduct is never rejected before it has issued the
\* product-create POST, whichever fields are absent.
C17_AllFieldsOptional == (upc = "rejected" /\ envOk) => Len(Posts) >= 1

\* the categories the search returned whose name is the requested one, letter
\* case aside
MatchingCategories ==
  IF searchResponse # <<>> /\ searchResponse[1].ok /\ searchResponse[1].hasData
    THEN { c \in Entries(searchResponse[1].data) :
             toLowerCase(c.name) = toLowerCase(productData.categories[1].name) }
    ELSE {}

FirstPost ==
  IF Posts = <<>> THEN 0
  ELSE CHOOSE i \in 1..Len(requests) :
         /\ requests[i] \in Entries(Posts)
         /\ \A j \in 1..(i - 1) : requests[j] \notin Entries(Posts)

\* C19: for product data with a sku the SKU lookup is issued, and answered,
\* before the first product-create POST; when it returned at least one product
\* the first payload has no sku, and when it returned none (or failed) the first
\* payload's sku is the scraped one. Without a scraped sku there is no lookup
\* and no sku in the payload.
C19_SkuPreCheck ==
  Len(Posts) >= 1 =>
    IF Has(productData, "sku") /\ productData.sku # <<>>
      THEN /\ \E j \in 1..(FirstPost - 1) : requests[j] = SkuLookup(productData.sku)
           /\ existingProducts # <<>>
           /\ IF /\ existingProducts[1].ok
                 /\ existingProducts[1].hasData
                 /\ Len(existingProducts[1].data) > 0
                THEN ~Has(Posts[1].body, "sku")
                ELSE /\ Has(Posts[1].body, "sku")
                     /\ Posts[1].body.sku = productData.sku
      ELSE /\ \A j \in 1..Len(requests) : requests[j].path # "products" \/ requests[j].method # "GET"
           /\ ~Has(Posts[1].body, "sku")

\* the lookup returned a product with the scraped sku and the product has been
\* posted without sku
C19_Witness ==
  /\ Len(Posts) >= 1
  /\ existingProducts # <<>>
  /\ existingProducts[1].ok
  /\ Len(existingProducts[1].data) = 1
  /\ ~Has(Posts[1].body, "sku")
  /\ requests[FirstPost - 1] = SkuLookup(SkuText)

(***************************************************************************)
(* Properties of the command line run.                                      *)
(***************************************************************************)
\* uploadProduct has been invoked
UploadInvoked == upc # "idle"

\* C20: the process ends with code 1 when the URL argument is missing or
\* invalid, when scrapeProduct failed and when uploadProduct failed; it ends
\* with code 0 only after scrapeProduct returned and uploadProduct resolved; and
\* uploadProduct is invoked only for a valid URL, after scrapeProduct returned.
C20_ExitCodes ==
  /\ exitCode \in {<<>>, <<0>>, <<1>>}
  /\ (exitCode = <<>>) = (mpc # "exited")
  /\ (mpc = "exited" /\ argv \in {"none", "invalid"}) => exitCode = <<1>>
  /\ (mpc = "exited" /\ ~UploadInvoked) => exitCode = <<1>>
  /\ (mpc = "exited" /\ upc = "rejected") => exitCode = <<1>>
  /\ exitCode = <<0>> => argv = "valid" /\ upc = "resolved" /\ outcome.kind = "resolved"
  /\ UploadInvoked => /\ argv = "valid"
                      /\ mpc \in {"awaitUpload", "exited"}
                      /\ productData \in ScrapedProducts
  /\ mpc = "exited" => upc \in {"idle", "resolved", "rejected"}

\* the upload was rejected after a product-create POST and the process has
\* ended with code 1
C20_Witness ==
  /\ mpc = "exited"
  /\ upc = "rejected"
  /\ Len(Posts) >= 1
  /\ exitCode = <<1>>

ShortStrategyRan ==
  /\ site = "wordpress"
  /\ spc = "strategy6"
  /\ strategy \cap {2, 3, 4} = {}
  /\ shortDescriptionOf(site, page) # <<>>

\* what the split after the label keeps, <<>> when the label is not there
LabelledYield ==
  LET m == featuresSectionMatch(shortDescriptionOf(site, page))
  IN IF m = <<>> THEN <<>>
     ELSE segments(trim(m[1]), FALSE, Keywords5Label, MinShortFeatureLength,
                   StopPhrases \cup {W_vizhegi}, TRUE)

\* what the split of the whole short description keeps
DirectYield ==
  segments(shortDescriptionOf(site, page), FALSE, Keywords5, MinShortFeatureLength,
           StopPhrases \cup {W_vizhegi}, TRUE)

RankOf(r) ==
  CASE r.path = "products/categories" -> 1
    [] r.path = "products" /\ r.method = "GET" -> 2
    [] r.path = "products" /\ r.method = "POST" -> 3
    [] r.path = "products/:id" /\ r.method = "GET" -> 4
    [] OTHER -> 5

\* the request uploadProduct is waiting for, 0 when it waits for none
AwaitedRank ==
  CASE upc = "awaitCategory" -> 1
    [] upc = "awaitSku" -> 2
    [] upc \in {"awaitCreate", "awaitRetry"} -> 3
    [] upc = "awaitMetaGet" -> 4
    [] upc = "awaitMetaPut" -> 5
    [] OTHER -> 0

\* C24: the requests of one run are issued in the order category search, SKU
\* lookup, product create, product GET, product PUT, each at most once but for
\* one resubmission of the create; the search only for scraped categories, the
\* lookup only for a scraped sku, GET and PUT only after a create was answered
\* with an id for a payload with meta_data, the PUT only after the GET; and
\* uploadProduct waits for the last request issued and for no other.
C24_RequestOrder ==
  /\ \A i, j \in 1..Len(requests) :
       i < j => /\ RankOf(requests[i]) <= RankOf(requests[j])
                /\ RankOf(requests[i]) = RankOf(requests[j]) => RankOf(requests[i]) = 3
  /\ Len(Posts) <= 2
  /\ \A i \in 1..Len(requests) :
       /\ RankOf(requests[i]) = 1 =>
            Has(productData, "categories") /\ Len(productData.categories) > 0
       /\ RankOf(requests[i]) = 2 => Has(productData, "sku") /\ productData.sku # <<>>
       /\ RankOf(requests[i]) \in {4, 5} =>
            /\ response.received /\ response.hasData /\ response.id # 0
            /\ requests[i].body.id = response.id
            /\ Len(Posts) >= 1
            /\ Has(Posts[Len(Posts)].body, "meta_data")
       /\ RankOf(requests[i]) = 5 => (i > 1 /\ RankOf(requests[i - 1]) = 4)
  /\ (requests # <<>> /\ Has(productData, "categories") /\ Len(productData.categories) > 0)
       => RankOf(requests[1]) = 1
  /\ AwaitedRank # 0 => (requests # <<>> /\ RankOf(requests[Len(requests)]) = AwaitedRank)
  /\ upc = "awaitRetry" => Len(Posts) = 2
  /\ upc = "awaitCreate" => Len(Posts) = 1

\* a run that issued all six requests has ended
C24_Witness ==
  /\ upc = "resolved"
  /\ Len(requests) = 6
  /\ [i \in 1..6 |-> RankOf(requests[i])] = <<1, 2, 3, 3, 4, 5>>

\* C25: an error caught in updateProductMeta, be it of the product GET or of the
\* product PUT, is not reported: uploadProduct has resolved with the id of the
\* product that was created, and no request follows.
C25_MetaUpdateNonCritical ==
  metaError # NoError =>
    /\ upc = "resolved"
    /\ outcome = ResolvedWith(response.id)
    /\ response.id # 0
    /\ RankOf(requests[Len(requests)]) \in {4, 5}

\* the product PUT has failed and uploadProduct has resolved with the id
C25_Witness ==
  /\ metaError # NoError
  /\ RankOf(requests[Len(requests)]) = 5
  /\ upc = "resolved"
  /\ outcome.id = response.id

\* C26: at most one category search is issued in a run, for the first scraped
\* category; a posted payload carries at most one category id; and when the
\* search did not return the first category, the payloads have no categories
\* although more categories were scraped.
C26_FirstCategoryOnly ==
  /\ \A i, j \in 1..Len(requests) :
       (RankOf(requests[i]) = 1 /\ RankOf(requests[j]) = 1) => i = j
  /\ \A i \in 1..Len(requests) :
       RankOf(requests[i]) = 1 => requests[i].body.search = productData.categories[1].name
  /\ \A i \in 1..Len(Posts) :
       /\ Has(Posts[i].body, "categories") => Len(Posts[i].body.categories) = 1
       /\ (searchResponse # <<>> /\ MatchingCategories = {})
            => ~Has(Posts[i].body, "categories")
  /\ Len(categoryIds) <= 1

\* two categories were scraped, the search returned categories but not the
\* first one, and the product was posted without categories after one search
C26_Witness ==
  /\ Len(Posts) >= 1
  /\ Has(productData, "categories")
  /\ Len(productData.categories) = 2
  /\ searchResponse # <<>>
  /\ searchResponse[1].ok
  /\ Len(searchResponse[1].data) = 1
  /\ MatchingCategories = {}
  /\ ~Has(Posts[1].body, "categories")
  /\ Cardinality({ i \in 1..Len(requests) : RankOf(requests[i]) = 1 }) = 1

\* the error that reaches the catch block of uploadProduct came from wcApi: a
\* create POST failed and no resubmission was answered
FromApi == firstError # NoError /\ ~response.received

C30_RetryWhateverThePayload ==
  /\ (firstError # NoError /\ SignalsSkuConflict(firstError)) => Len(Posts) = 2
  /\ Len(Posts) = 2 =>
       /\ SignalsSkuConflict(firstError)
       /\ Posts[2].body = Delete(Posts[1].body, "sku")
       /\ Has(Posts[1].body, "sku") = (Posts[2].body # Posts[1].body)

\* a payload without sku, the lookup having found the sku in use, was posted
\* twice
C30_Witness ==
  /\ Len(Posts) = 2
  /\ existingProducts # <<>>
  /\ skuExists(existingProducts[1])
  /\ ~Has(Posts[1].body, "sku")
  /\ Posts[2].body = Posts[1].body

\* C30 as stated: a second POST is issued only after a first payload with a
\* sku, and differs from it.
C30_Original ==
  Len(Posts) = 2 => (Has(Posts[1].body, "sku") /\ Posts[2].body # Posts[1].body)

(***************************************************************************)
(* Properties of processAndUploadImages.                                    *)
(***************************************************************************)
\* the images that were started and have neither been uploaded nor failed
InFlight == Entries(started) \ Entries(finished)

\* C21: the images are started one after the other in the order of the input,
\* each only after the one before it was uploaded or has failed, so that at
\* most one image is in flight: the one the loop stands at, while a download, a
\* clean-up or an upload is awaited.
C21_OneImageAtATime ==
  /\ started = [i \in 1..Len(started) |-> i]
  /\ finished = [i \in 1..Len(finished) |-> i]
  /\ Len(finished) <= Len(started)
  /\ Len(started) <= Len(finished) + 1
  /\ Cardinality(InFlight) <= 1
  /\ (ipc \in {"process", "upload"}) = (InFlight # {})
  /\ InFlight # {} => InFlight = {idx}
  /\ Len(results) = Len(finished)

\* the second image is in flight after the first one was uploaded
C21_Witness ==
  /\ ipc = "upload"
  /\ started = <<1, 2>>
  /\ finished = <<1>>
  /\ results[1].id # 0

C28_BrowserClosedOnce ==
  /\ closeCalls \in {0, 1}
  /\ closeCalls = 1 => (browser /\ dpc \in {"close", "settled"})
  /\ dpc = "settled" => /\ closeCalls = (IF browser THEN 1 ELSE 0)
                        /\ settlement.kind \in {"resolved", "rejected"}
  /\ (dpc = "settled" /\ ~browser) =>
       (settlement.kind = "rejected" /\ settlement.value.at \in {"launch", "timeout"})
  /\ dpc \notin {"close", "settled"} => settlement = Unsettled
  /\ browser = (dpc \notin {"idle", "launch"} /\ ~(dpc = "settled" /\ closeCalls = 0))

\* the navigation timed out, the browser was closed, and scrapeProduct has
\* thrown the timeout error
C28_Witness ==
  /\ dpc = "settled"
  /\ browser
  /\ closeCalls = 1
  /\ isWordPress = "unknown"
  /\ settlement = Throws([name |-> "Error", at |-> "timeout", url |-> dargs.url])

=============================================================================
